---- MODULE Spec2Model ----
(***************************************************************************)
(* A model of the Open_Clanker gateway runtime: WebSocket sessions over    *)
(* the connection table and the broadcaster, the ingress dispatcher and    *)
(* its channel listener, the Master/Worker request flow, and the           *)
(* delegation parser.                                                      *)
(*                                                                         *)
(* Three specifications share the module:                                  *)
(*   Spec / FairSpec  the gateway process model (sessions, broadcaster,    *)
(*                    dispatcher, listener, shutdown token)                *)
(*   SpecOrch         concurrent process_message requests                  *)
(*   SpecParse        parse_delegation applied to bounded inputs           *)
(***************************************************************************)
EXTENDS Integers, Sequences, FiniteSets, TLC

VARIABLES
    \* ---- gateway: AppState and the tasks of gateway/src ----
    connections,     \* AppStateInner.connections: id -> ConnectionState.subscriptions
    shutdown,        \* AppStateInner.shutdown_token is cancelled
    total_messages,  \* AppStateInner.total_messages
    topic,           \* the broadcast topic: events sent, and the ring it retains
    ws_pc,           \* per session: where handle_websocket is
    conn_state,      \* per session: subscriptions of the handler's local ConnectionState
    rx_next,         \* per session: position of its broadcast receiver (-1: none)
    exit_path,       \* history: how a returned session left handle_websocket
    clientSubs,      \* history: channel ids the peer was confirmed subscribed to
    delivery,        \* history: what the step just taken did with a broadcast event
    history,         \* whether clientSubs and delivery are recorded (never changes)
    ingress,         \* the mpsc ingress queue (message ids)
    emitted,         \* number of messages the listener has produced
    listener_pc,     \* the spawned listener task
    tg_connected,    \* TelegramChannel.connected
    disp_pc,         \* the spawned processing loop
    disp_msg,        \* the message the processing loop holds (0: none)
    \* ---- requests: processor.rs and orchestrator.rs ----
    cfg,             \* the configuration record the AppState was built from
    permits,         \* free permits of the worker semaphore
    active_workers,  \* the active-worker gauge
    req,             \* per request: where process_message / delegate is
    \* ---- the delegation parser: orchestrator.rs ----
    response,        \* the master's reply handed to parse_delegation
    parsed,          \* what parse_delegation did with it
    \* ---- one ConnectionState under its own operations: types.rs ----
    last_op,         \* history: per ConnectionState and channel id, the last operation
    \* ---- one session's client frames, with the socket's buffer explicit ----
    inbox,           \* frames that arrived and were not read yet, oldest first
    arrived,         \* number of frames that arrived so far
    handled,         \* frames whose handler was entered, in that order
    replies,         \* direct replies written to the client, in that order
    frame_pc,        \* where the session is: select | processing
    frame_cur,       \* the send_message frame being processed (0: none)
    \* ---- the channel adapters on their own: channels/src ----
    adapter,         \* per channel type: connected flag, listen position, sends
    \* ---- one ClankerError under is_retryable: core/src/error.rs ----
    err,             \* the error value: its variant and, where it has one, its message
    retryable,       \* whether is_retryable was asked about it, and what it returned
    \* ---- the processing loop with its messages explicit: server.rs ----
    reply_loop       \* channels, position, message held, reply built, replies handed on

gwVars == << connections, shutdown, total_messages, topic, ws_pc, conn_state,
             rx_next, exit_path, clientSubs, delivery, history, ingress, emitted, listener_pc,
             tg_connected, disp_pc, disp_msg >>

orchVars == << cfg, permits, active_workers, req >>

parseVars == << response, parsed >>

connVars == << last_op >>

frameVars == << inbox, arrived, handled, replies, frame_pc, frame_cur >>

chanVars == << adapter >>

errVars == << err, retryable >>

replyVars == << reply_loop >>

vars == << gwVars, orchVars, parseVars, connVars, frameVars, chanVars, errVars, replyVars >>

\* ------------------------------------------------------------------ bounds
MaxConns == 2            \* WebSocket sessions the model opens
MaxPublish == 2          \* events topic on the broadcaster
BroadcastCapacity == 1   \* stands for broadcast::channel(1000)
MaxMessages == 1         \* send_message requests counted
QueueCapacity == 2       \* stands for mpsc::channel(256)
MaxIngress == 3          \* messages the listener emits

Conns == 1..MaxConns
Channels == {"X", "Y"}
ChannelTypes == {"telegram", "discord"}
NoRx == -1

\* ------------------------------------------------------------ types.rs
\* ConnectionState is kept as its subscriptions map: channel_id -> channel_type.
\* ConnectionState::new: no subscriptions
NewConnectionState == << >>

\* ConnectionState::subscribe: HashMap::insert
subscribe(subs, channel_id, channel_type) ==
    [x \in (DOMAIN subs) \cup {channel_id} |->
        IF x = channel_id THEN channel_type ELSE subs[x]]

\* Mutant of unsubscribe: the entry is left in place.
unsubscribe_kept(subs, channel_id) == subs

\* ConnectionState::unsubscribe: HashMap::remove
unsubscribe(subs, channel_id) ==
    [x \in (DOMAIN subs) \ {channel_id} |-> subs[x]]

\* ConnectionState::is_subscribed: HashMap::contains_key
is_subscribed(subs, channel_id) == channel_id \in DOMAIN subs

\* ConnectionState::subscription_count
subscription_count(subs) == Cardinality(DOMAIN subs)

\* WsServerMessage values that travel on the broadcaster.  The gateway's
\* only channel is Telegram.
MessageReceived(ch) ==
    [kind |-> "message_received", channel_id |-> ch, channel_type |-> "telegram"]
ErrorEvent == [kind |-> "error", channel_id |-> "-", channel_type |-> "-"]
Events == {MessageReceived(ch) : ch \in Channels} \cup {ErrorEvent}

\* Mutant of should_send_to_message: the subscription's channel type must
\* match the message's as well.
should_send_same_type(message, subs) ==
    IF message.kind = "message_received"
    THEN /\ message.channel_id \in DOMAIN subs
         /\ subs[message.channel_id] = message.channel_type
    ELSE TRUE

\* handlers.rs should_send_to_message
should_send_to_message(message, subs) ==
    IF message.kind = "message_received"
    THEN is_subscribed(subs, message.channel_id)
    ELSE TRUE

\* ------------------------------------------------------------ state.rs
add_connection(table, id, st) ==
    [x \in (DOMAIN table) \cup {id} |-> IF x = id THEN st ELSE table[x]]

remove_connection(table, id) ==
    [x \in (DOMAIN table) \ {id} |-> table[x]]

connection_count == Cardinality(DOMAIN connections)

\* ------------------------------------------------------------ broadcast.rs
\* The topic is tokio's broadcast ring: `sent` events were stored so far, at
\* positions 1..sent, and the last BroadcastCapacity of them are retained.
EmptyTopic == [sent |-> 0, ring |-> << >>]

\* Oldest position still held by the topic
OldestPos == topic.sent - Len(topic.ring) + 1

\* The retained entry at position p
EntryAt(p) == topic.ring[p - OldestPos + 1]

receiver_count == Cardinality({c \in Conns : rx_next[c] # NoRx})

\* tx.send(value) with at least one receiver: the value is stored, the
\* oldest one is overwritten when the ring is full
RingPush(ring, entry) ==
    IF Len(ring) < BroadcastCapacity
    THEN Append(ring, entry)
    ELSE Append(Tail(ring), entry)

\* clientSubs and delivery are history variables: the program neither reads
\* nor writes them, so a specification may leave them unrecorded.
Record(new, old) == IF history THEN new ELSE old

NoDelivery == [conn |-> 0, kind |-> "none", channel_id |-> "-", channel_type |-> "-",
               claimed |-> FALSE, stable |-> TRUE, forwarded |-> FALSE,
               request |-> "none", frame |-> "none"]

\* Events a receiver has not read yet; the ring retains at most
\* BroadcastCapacity of them
Unread(c) == topic.sent - rx_next[c] + 1

\* tx.send(message): with no receiver the value is handed back in Err and
\* nothing is stored; otherwise it is stored at the next position, over the
\* oldest retained value when the ring is full.  Each entry also records
\* which sessions had a handled subscription to the event's channel when it
\* was stored.
StoreEvent(ev) ==
    topic' = IF receiver_count = 0
             THEN topic
             ELSE [sent |-> topic.sent + 1,
                   ring |-> RingPush(topic.ring,
                              [ev |-> ev,
                               subs |-> {c \in Conns : ev.channel_id \in clientSubs[c]}])]

pubFrame == << connections, shutdown, total_messages, ws_pc, conn_state,
               rx_next, exit_path, clientSubs, history, ingress, emitted,
               listener_pc, tg_connected, disp_pc, disp_msg,
               orchVars, parseVars, connVars, frameVars, chanVars, errVars, replyVars >>

\* Mutant of Publish: the publisher waits, as on a bounded queue, while some
\* receiver has a full ring of unread events.
PublishWaiting(ev) ==
    /\ topic.sent < MaxPublish
    /\ \A c \in Conns : rx_next[c] # NoRx => Unread(c) < BroadcastCapacity
    /\ StoreEvent(ev)
    /\ delivery' = NoDelivery
    /\ UNCHANGED pubFrame

\* MessageBroadcaster::broadcast (send_to_channel, send_error): tx.send never
\* waits for a receiver; its result is discarded and Ok(()) returned.
Publish(ev) ==
    /\ topic.sent < MaxPublish
    /\ StoreEvent(ev)
    /\ UNCHANGED history
    /\ delivery' = NoDelivery
    /\ UNCHANGED << connections, shutdown, total_messages, ws_pc, conn_state,
                    rx_next, exit_path, clientSubs, ingress, emitted,
                    listener_pc, tg_connected, disp_pc, disp_msg >>
    /\ UNCHANGED << orchVars, parseVars, connVars, frameVars, chanVars, errVars, replyVars >>

wsVars == << connections, total_messages, topic, ws_pc, conn_state, rx_next,
             exit_path, clientSubs, history >>

dispVars == << ingress, emitted, listener_pc, tg_connected, disp_pc, disp_msg >>

\* ------------------------------------------------------------ handlers.rs
\* handle_websocket, lines 70-85: fresh id, add_connection, broadcaster().subscribe()
WsUpgrade(c) ==
    /\ ws_pc[c] = "none"
    /\ ~shutdown
    /\ connections' = add_connection(connections, c, NewConnectionState)
    /\ conn_state' = [conn_state EXCEPT ![c] = NewConnectionState]
    /\ rx_next' = [rx_next EXCEPT ![c] = topic.sent + 1]
    /\ ws_pc' = [ws_pc EXCEPT ![c] = "welcome"]
    /\ UNCHANGED << shutdown, total_messages, topic, exit_path, clientSubs >>
    /\ delivery' = NoDelivery
    /\ UNCHANGED << dispVars, history >>
    /\ UNCHANGED << orchVars, parseVars, connVars, frameVars, chanVars, errVars, replyVars >>

\* The handler's locals are dropped when it returns.
DropLocals(c) ==
    /\ conn_state' = [conn_state EXCEPT ![c] = NewConnectionState]
    /\ rx_next' = [rx_next EXCEPT ![c] = NoRx]
    /\ clientSubs' = [clientSubs EXCEPT ![c] = {}]

\* lines 87-96: send the welcome frame; on a send error, return
WsWelcome(c) ==
    /\ ws_pc[c] = "welcome"
    /\ \E sent \in BOOLEAN :
          IF sent
          THEN /\ ws_pc' = [ws_pc EXCEPT ![c] = "loop"]
               /\ UNCHANGED << conn_state, rx_next, clientSubs, exit_path >>
          ELSE /\ ws_pc' = [ws_pc EXCEPT ![c] = "returned"]
               /\ exit_path' = [exit_path EXCEPT ![c] = "welcome_failed"]
               /\ DropLocals(c)
    /\ UNCHANGED << connections, shutdown, total_messages, topic >>
    /\ delivery' = NoDelivery
    /\ UNCHANGED << dispVars, history >>
    /\ UNCHANGED << orchVars, parseVars, connVars, frameVars, chanVars, errVars, replyVars >>

\* lines 147-149: leave the loop, remove_connection, return
WsBreak(c, path) ==
    /\ connections' = remove_connection(connections, c)
    /\ ws_pc' = [ws_pc EXCEPT ![c] = "returned"]
    /\ exit_path' = [exit_path EXCEPT ![c] = path]
    /\ DropLocals(c)

\* lines 113-116: receiver.next() yields Some(Err(e))
WsRecvError(c) ==
    /\ ws_pc[c] = "loop"
    /\ WsBreak(c, "recv_error")
    /\ UNCHANGED << shutdown, total_messages, topic >>
    /\ delivery' = NoDelivery
    /\ UNCHANGED << dispVars, history >>
    /\ UNCHANGED << orchVars, parseVars, connVars, frameVars, chanVars, errVars, replyVars >>

\* lines 99-146: the handler is in the select, with or without its client
\* branch
Polling(c) == ws_pc[c] \in {"loop", "stream_ended"}

\* line 102: receiver.next() yields None (the peer is gone, no error).  The
\* pattern Some(result) does not match, so select! disables the client
\* branch and goes on waiting for the broadcast and the shutdown branches;
\* every later poll of the ended stream yields None again.
WsStreamEnd(c) ==
    /\ ws_pc[c] = "loop"
    /\ ws_pc' = [ws_pc EXCEPT ![c] = "stream_ended"]
    /\ UNCHANGED << connections, shutdown, total_messages, topic, conn_state,
                    rx_next, exit_path, clientSubs >>
    /\ delivery' = NoDelivery
    /\ UNCHANGED << dispVars, history >>
    /\ UNCHANGED << orchVars, parseVars, connVars, frameVars, chanVars, errVars, replyVars >>

\* Mutant of WsShutdown: the shutdown branch logs and goes round the loop
\* again instead of leaving it.
WsShutdownIgnored(c) ==
    /\ Polling(c)
    /\ shutdown
    /\ delivery' = NoDelivery
    /\ UNCHANGED << shutdown, wsVars, dispVars >>
    /\ UNCHANGED << orchVars, parseVars, connVars, frameVars, chanVars, errVars, replyVars >>

\* lines 140-143: the shutdown branch of the select
WsShutdown(c) ==
    /\ Polling(c)
    /\ shutdown
    /\ WsBreak(c, "shutdown")
    /\ UNCHANGED << shutdown, total_messages, topic >>
    /\ delivery' = NoDelivery
    /\ UNCHANGED << dispVars, history >>
    /\ UNCHANGED << orchVars, parseVars, connVars, frameVars, chanVars, errVars, replyVars >>

\* lines 102-112 with handle_client_message, lines 171-180: a subscribe
\* request is logged and answered with `subscribed`; the result of the send
\* is discarded.  Neither the local ConnectionState nor the table is touched.
WsSubscribe(c, ch) ==
    /\ ws_pc[c] = "loop"
    /\ clientSubs' = Record([clientSubs EXCEPT ![c] = @ \cup {ch}], clientSubs)
    /\ UNCHANGED << connections, shutdown, total_messages, topic, ws_pc,
                    conn_state, rx_next, exit_path >>
    /\ delivery' = NoDelivery
    /\ UNCHANGED << dispVars, history >>
    /\ UNCHANGED << orchVars, parseVars, connVars, frameVars, chanVars, errVars, replyVars >>

\* handle_client_message, lines 182-190: unsubscribe, answered with `unsubscribed`
WsUnsubscribe(c, ch) ==
    /\ ws_pc[c] = "loop"
    /\ clientSubs' = Record([clientSubs EXCEPT ![c] = @ \ {ch}], clientSubs)
    /\ UNCHANGED << connections, shutdown, total_messages, topic, ws_pc,
                    conn_state, rx_next, exit_path >>
    /\ delivery' = NoDelivery
    /\ UNCHANGED << dispVars, history >>
    /\ UNCHANGED << orchVars, parseVars, connVars, frameVars, chanVars, errVars, replyVars >>

\* Frames whose handling changes no state of the server: a ping request
\* (pong reply, lines 165-169), an undecodable text frame (error reply, lines
\* 105-111), a close frame (logged, lines 230-232), protocol ping/pong and
\* binary frames (lines 234-245).  The loop goes on in every case.
FrameKinds == {"ping", "invalid", "close", "ws_ping", "ws_pong", "binary"}

\* Mutant of ReplyTo: a text frame that does not decode gets no reply.
ReplyToDecoded(kind) ==
    IF kind = "ping" THEN "pong"
    ELSE IF kind = "ws_ping" THEN "ws_pong"
    ELSE "none"

\* The frame written for an inbound frame that touches no state.  Line 162
\* with lines 105-111: a text that is not a WsClientMessage makes
\* handle_client_message return Err and the loop writes
\* error("MESSAGE_ERROR", e); lines 165-169: ping is answered by pong;
\* lines 233-236: a WebSocket ping by a WebSocket pong; close, pong and
\* binary frames get nothing.
ReplyTo(kind) ==
    IF kind = "invalid" THEN "error:MESSAGE_ERROR"
    ELSE IF kind = "ping" THEN "pong"
    ELSE IF kind = "ws_ping" THEN "ws_pong"
    ELSE "none"

WsOtherFrame(c) ==
    /\ ws_pc[c] = "loop"
    /\ \E kind \in FrameKinds :
          delivery' = Record([NoDelivery EXCEPT !.conn = c, !.request = kind,
                                                !.frame = ReplyTo(kind)],
                             NoDelivery)
    /\ UNCHANGED << shutdown >>
    /\ UNCHANGED wsVars
    /\ UNCHANGED dispVars
    /\ UNCHANGED << orchVars, parseVars, connVars, frameVars, chanVars, errVars, replyVars >>

\* A send_message handler that leaves the counter alone.
WsSendMessageUncounted(c) ==
    /\ ws_pc[c] = "loop"
    /\ total_messages < MaxMessages
    /\ ws_pc' = [ws_pc EXCEPT ![c] = "processing"]
    /\ UNCHANGED << connections, shutdown, topic, conn_state, rx_next,
                    clientSubs, exit_path, total_messages >>
    /\ delivery' = NoDelivery
    /\ UNCHANGED << dispVars, history >>
    /\ UNCHANGED << orchVars, parseVars, connVars, frameVars, chanVars, errVars, replyVars >>

\* handle_client_message, lines 192-206: send_message bumps the counter and
\* awaits processor::process_message
WsSendMessage(c) ==
    /\ ws_pc[c] = "loop"
    /\ total_messages < MaxMessages
    /\ total_messages' = total_messages + 1
    /\ ws_pc' = [ws_pc EXCEPT ![c] = "processing"]
    /\ UNCHANGED << connections, shutdown, topic, conn_state, rx_next,
                    clientSubs, exit_path >>
    /\ delivery' = NoDelivery
    /\ UNCHANGED << dispVars, history >>
    /\ UNCHANGED << orchVars, parseVars, connVars, frameVars, chanVars, errVars, replyVars >>

\* Mutant of WsProcessDone: the reply is also put on the broadcaster.
WsProcessDoneShared(c) ==
    /\ ws_pc[c] = "processing"
    /\ ws_pc' = [ws_pc EXCEPT ![c] = "loop"]
    /\ StoreEvent(MessageReceived("X"))
    /\ UNCHANGED << connections, shutdown, total_messages, conn_state,
                    rx_next, clientSubs, exit_path >>
    /\ delivery' = Record([NoDelivery EXCEPT !.conn = c, !.request = "send_message",
                                             !.frame = "send_response"],
                          NoDelivery)
    /\ UNCHANGED << dispVars, history >>
    /\ UNCHANGED << orchVars, parseVars, connVars, frameVars, chanVars, errVars, replyVars >>

\* lines 206-225: process_message returns (Ok or Err), send_response is
\* written to this session's sender (result discarded), the handler returns
\* to the loop
WsProcessDone(c) ==
    /\ ws_pc[c] = "processing"
    /\ \E ok \in BOOLEAN : ws_pc' = [ws_pc EXCEPT ![c] = "loop"]
    /\ UNCHANGED << connections, shutdown, total_messages, topic, conn_state,
                    rx_next, clientSubs, exit_path >>
    /\ delivery' = Record([NoDelivery EXCEPT !.conn = c, !.request = "send_message",
                                             !.frame = "send_response"],
                          NoDelivery)
    /\ UNCHANGED << dispVars, history >>
    /\ UNCHANGED << orchVars, parseVars, connVars, frameVars, chanVars, errVars, replyVars >>

\* lines 121, 132-135: broadcast_rx.recv() yields Err(Lagged) when the
\* receiver's position has been overwritten; the loop is left
WsBroadcastLagged(c) ==
    /\ Polling(c)
    /\ rx_next[c] # NoRx
    /\ rx_next[c] < OldestPos
    /\ WsBreak(c, "broadcast_recv_error")
    /\ UNCHANGED << shutdown, total_messages, topic >>
    /\ delivery' = NoDelivery
    /\ UNCHANGED << dispVars, history >>
    /\ UNCHANGED << orchVars, parseVars, connVars, frameVars, chanVars, errVars, replyVars >>

\* lines 121-131: broadcast_rx.recv() yields Ok(event); the event is
\* filtered against the handler's local ConnectionState and, if accepted,
\* sent; a send error leaves the loop
WsBroadcastEvent(c) ==
    /\ Polling(c)
    /\ rx_next[c] # NoRx
    /\ rx_next[c] >= OldestPos
    /\ rx_next[c] <= topic.sent
    /\ LET e == EntryAt(rx_next[c])
           atPublish == c \in e.subs
           atDelivery == e.ev.channel_id \in clientSubs[c]
           done(fwd) == [conn |-> c, kind |-> e.ev.kind,
                         channel_id |-> e.ev.channel_id,
                         channel_type |-> e.ev.channel_type,
                         claimed |-> atPublish /\ atDelivery,
                         stable |-> (atPublish <=> atDelivery),
                         forwarded |-> fwd,
                         request |-> "none",
                         frame |-> IF fwd THEN e.ev.kind ELSE "none"]
       IN IF should_send_to_message(e.ev, conn_state[c])
          THEN \E sent \in BOOLEAN :
                  IF sent
                  THEN /\ rx_next' = [rx_next EXCEPT ![c] = @ + 1]
                       /\ delivery' = Record(done(TRUE), NoDelivery)
                       /\ UNCHANGED << connections, ws_pc, conn_state, clientSubs, exit_path >>
                  ELSE /\ WsBreak(c, "broadcast_send_failed")
                       /\ delivery' = Record(done(TRUE), NoDelivery)
          ELSE /\ rx_next' = [rx_next EXCEPT ![c] = @ + 1]
               /\ delivery' = Record(done(FALSE), NoDelivery)
               /\ UNCHANGED << connections, ws_pc, conn_state, clientSubs, exit_path >>
    /\ UNCHANGED << shutdown, total_messages, topic, history >>
    /\ UNCHANGED dispVars
    /\ UNCHANGED << orchVars, parseVars, connVars, frameVars, chanVars, errVars, replyVars >>

\* ------------------------------------------------------------ server.rs
\* setup_graceful_shutdown, lines 111-131: a signal cancels the token
Cancel ==
    /\ ~shutdown
    /\ shutdown' = TRUE
    /\ delivery' = NoDelivery
    /\ UNCHANGED wsVars
    /\ UNCHANGED dispVars
    /\ UNCHANGED << orchVars, parseVars, connVars, frameVars, chanVars, errVars, replyVars >>

\* start, lines 56-64 with telegram.rs listen_with_tx, lines 85-86: the
\* spawned listener task enters listen_with_tx and sets `connected`
ListenerStart ==
    /\ listener_pc = "spawned"
    /\ listener_pc' = "listening"
    /\ tg_connected' = TRUE
    /\ UNCHANGED << ingress, emitted, disp_pc, disp_msg, shutdown >>
    /\ delivery' = NoDelivery
    /\ UNCHANGED wsVars
    /\ UNCHANGED << orchVars, parseVars, connVars, frameVars, chanVars, errVars, replyVars >>

\* The processing loop's task has ended and dropped the queue's receiver
DispatcherGone == disp_pc \in {"exited", "panicked"}

\* Mutant of ListenerEmit: a message that finds the queue full is discarded.
ListenerEmitLossy ==
    /\ listener_pc = "listening"
    /\ emitted < MaxIngress
    /\ emitted' = emitted + 1
    /\ IF ~DispatcherGone /\ Len(ingress) < QueueCapacity
       THEN ingress' = Append(ingress, emitted + 1)
       ELSE ingress' = ingress
    /\ UNCHANGED << listener_pc, tg_connected, disp_pc, disp_msg, shutdown >>
    /\ delivery' = NoDelivery
    /\ UNCHANGED wsVars
    /\ UNCHANGED << orchVars, parseVars, connVars, frameVars, chanVars, errVars, replyVars >>

\* telegram.rs lines 89-108: the handler builds a Message from a non-empty
\* platform message and calls tx.send(..).await.  With a free slot the message
\* is queued at once; with the queue full the handler waits; with the
\* receiver dropped the send fails and the error is discarded.
ListenerEmit ==
    /\ listener_pc = "listening"
    /\ emitted < MaxIngress
    /\ emitted' = emitted + 1
    /\ IF DispatcherGone
       THEN ingress' = ingress /\ listener_pc' = "listening"
       ELSE IF Len(ingress) < QueueCapacity
       THEN ingress' = Append(ingress, emitted + 1) /\ listener_pc' = "listening"
       ELSE ingress' = ingress /\ listener_pc' = "waiting"
    /\ UNCHANGED << tg_connected, disp_pc, disp_msg, shutdown >>
    /\ delivery' = NoDelivery
    /\ UNCHANGED wsVars
    /\ UNCHANGED << orchVars, parseVars, connVars, frameVars, chanVars, errVars, replyVars >>

\* telegram.rs line 106: the waiting tx.send completes, with the message
\* queued once the processing loop has freed a slot, or with an error
\* (discarded) once the receiver is dropped
ListenerResume ==
    /\ listener_pc = "waiting"
    /\ IF DispatcherGone
       THEN ingress' = ingress
       ELSE /\ Len(ingress) < QueueCapacity
            /\ ingress' = Append(ingress, emitted)
    /\ listener_pc' = "listening"
    /\ UNCHANGED << emitted, tg_connected, disp_pc, disp_msg, shutdown >>
    /\ delivery' = NoDelivery
    /\ UNCHANGED wsVars
    /\ UNCHANGED << orchVars, parseVars, connVars, frameVars, chanVars, errVars, replyVars >>

\* telegram.rs lines 111-113: teloxide::repl returns only when the platform
\* SDK stops by itself; the shutdown token is not consulted
ListenerSdkStop ==
    /\ listener_pc = "listening"
    /\ listener_pc' = "returned"
    /\ UNCHANGED << ingress, emitted, tg_connected, disp_pc, disp_msg, shutdown >>
    /\ delivery' = NoDelivery
    /\ UNCHANGED wsVars
    /\ UNCHANGED << orchVars, parseVars, connVars, frameVars, chanVars, errVars, replyVars >>

\* Mutant of DispRecv: the newest queued message is taken first.
DispRecvNewest ==
    /\ disp_pc = "select"
    /\ ingress # << >>
    /\ disp_msg' = ingress[Len(ingress)]
    /\ ingress' = SubSeq(ingress, 1, Len(ingress) - 1)
    /\ disp_pc' = "processing"
    /\ UNCHANGED << emitted, listener_pc, tg_connected, shutdown >>
    /\ delivery' = NoDelivery
    /\ UNCHANGED wsVars
    /\ UNCHANGED << orchVars, parseVars, connVars, frameVars, chanVars, errVars, replyVars >>

\* start, lines 69-72: the processing loop takes the next message and
\* awaits process_message
DispRecv ==
    /\ disp_pc = "select"
    /\ ingress # << >>
    /\ disp_msg' = Head(ingress)
    /\ ingress' = Tail(ingress)
    /\ disp_pc' = "processing"
    /\ UNCHANGED << emitted, listener_pc, tg_connected, shutdown >>
    /\ delivery' = NoDelivery
    /\ UNCHANGED wsVars
    /\ UNCHANGED << orchVars, parseVars, connVars, frameVars, chanVars, errVars, replyVars >>

\* lines 72-83: process_message returns; an error is logged
DispProcessDone ==
    /\ disp_pc = "processing"
    /\ \E ok \in BOOLEAN :
          IF ok
          THEN disp_pc' = "sending" /\ disp_msg' = disp_msg
          ELSE disp_pc' = "select" /\ disp_msg' = 0
    /\ UNCHANGED << ingress, emitted, listener_pc, tg_connected, shutdown >>
    /\ delivery' = NoDelivery
    /\ UNCHANGED wsVars
    /\ UNCHANGED << orchVars, parseVars, connVars, frameVars, chanVars, errVars, replyVars >>

\* lines 74-80: channel_for(incoming.channel_type) and ch.send(response);
\* a send error is logged
DispSend ==
    /\ disp_pc = "sending"
    /\ \E delivered \in BOOLEAN : delivered => tg_connected
    /\ disp_pc' = "select"
    /\ disp_msg' = 0
    /\ UNCHANGED << ingress, emitted, listener_pc, tg_connected, shutdown >>
    /\ delivery' = NoDelivery
    /\ UNCHANGED wsVars
    /\ UNCHANGED << orchVars, parseVars, connVars, frameVars, chanVars, errVars, replyVars >>

\* line 85: the shutdown branch of the processing loop's select
DispShutdown ==
    /\ disp_pc = "select"
    /\ shutdown
    /\ disp_pc' = "exited"
    /\ ingress' = << >>
    /\ UNCHANGED << emitted, listener_pc, tg_connected, disp_msg, shutdown >>
    /\ delivery' = NoDelivery
    /\ UNCHANGED wsVars
    /\ UNCHANGED << orchVars, parseVars, connVars, frameVars, chanVars, errVars, replyVars >>

\* ---------------------------------------- orchestrator.rs: parse_delegation
\* A string is a sequence of chars.  A char is a one-character string, or one
\* of two names for chars outside ASCII.
EAcute == "U+00E9"
Euro == "U+20AC"

\* char::len_utf8
len_utf8(c) == IF c = EAcute THEN 2 ELSE IF c = Euro THEN 3 ELSE 1

\* Byte offset of the boundary after the first k chars of s
RECURSIVE ByteOffset(_, _)
ByteOffset(s, k) == IF k = 0 THEN 0 ELSE ByteOffset(s, k - 1) + len_utf8(s[k])

\* char::is_whitespace
is_whitespace(c) == c \in {" ", "\n", "\t"}

RECURSIVE trim_start(_)
trim_start(s) == IF s # << >> /\ is_whitespace(Head(s)) THEN trim_start(Tail(s)) ELSE s

RECURSIVE trim_end(_)
trim_end(s) == IF s # << >> /\ is_whitespace(s[Len(s)])
               THEN trim_end(SubSeq(s, 1, Len(s) - 1)) ELSE s

\* str::trim
trim(s) == trim_end(trim_start(s))

\* str::starts_with
starts_with(s, prefix) ==
    Len(s) >= Len(prefix) /\ SubSeq(s, 1, Len(prefix)) = prefix

\* str::strip_prefix on a string that starts with the prefix
strip_prefix(s, prefix) == SubSeq(s, Len(prefix) + 1, Len(s))

DELEGATE_PREFIX == << "[", "D", "E", "L", "E", "G", "A", "T", "E", "]" >>

\* Option<String>, or the panic of a slice that ends inside a char
NoString == [kind |-> "None", str |-> << >>]
SomeString(str) == [kind |-> "Some", str |-> str]
SlicePanic == [kind |-> "Panic", str |-> << >>]

\* s[..=i]: the bytes 0 to i of s.  Byte i + 1 must be a char boundary, else
\* the index operation panics.
SliceToInclusive(s, i) ==
    LET ends == {k \in 0..Len(s) : ByteOffset(s, k) = i + 1}
    IN IF ends = {} THEN SlicePanic
       ELSE SomeString(SubSeq(s, 1, CHOOSE k \in ends : TRUE))

\* The loop of extract_json_array over s.chars().enumerate(), from the char
\* with index i (counted from 0): the index of the char that closes the
\* array, or -1 when the chars run out
RECURSIVE ScanArray(_, _, _, _, _, _)
ScanArray(s, i, depth, in_string, escape, quote_char) ==
    IF i >= Len(s) THEN -1
    ELSE LET c == s[i + 1] IN
         IF escape THEN ScanArray(s, i + 1, depth, in_string, FALSE, quote_char)
         ELSE IF in_string
         THEN IF c = "\\" THEN ScanArray(s, i + 1, depth, TRUE, TRUE, quote_char)
              ELSE IF c = quote_char
              THEN ScanArray(s, i + 1, depth, FALSE, FALSE, quote_char)
              ELSE ScanArray(s, i + 1, depth, TRUE, FALSE, quote_char)
         ELSE IF c \in {"\"", "'"} THEN ScanArray(s, i + 1, depth, TRUE, FALSE, c)
         ELSE IF c = "[" THEN ScanArray(s, i + 1, depth + 1, FALSE, FALSE, quote_char)
         ELSE IF c = "]"
         THEN IF depth - 1 = 0 THEN i
              ELSE ScanArray(s, i + 1, depth - 1, FALSE, FALSE, quote_char)
         ELSE ScanArray(s, i + 1, depth, FALSE, FALSE, quote_char)

\* extract_json_array: the char index found by the loop is used as a byte
\* index into s
extract_json_array(str) ==
    LET s == trim(str) IN
    IF ~starts_with(s, << "[" >>) THEN NoString
    ELSE LET i == ScanArray(s, 0, 0, FALSE, FALSE, "\"") IN
         IF i = -1 THEN NoString ELSE SliceToInclusive(s, i)

\* ------------------------ serde_json::from_str::<Vec<WorkerTask>>(&json_str)
\* The decoder over chars.  Of JSON it reads what the replies drawn below
\* contain: arrays, objects and strings; a member value that is not a string
\* is refused.
At(s, p) == IF p \in 1..Len(s) THEN s[p] ELSE "EOF"

RECURSIVE SkipWs(_, _)
SkipWs(s, p) == IF At(s, p) \in {" ", "\n", "\t", "\r"} THEN SkipWs(s, p + 1) ELSE p

Fail == [ok |-> FALSE, pos |-> 0, val |-> << >>]
Read(pos, val) == [ok |-> TRUE, pos |-> pos, val |-> val]

\* The char an escape sequence stands for
Unescape(e) ==
    CASE e = "n" -> "\n"
      [] e = "t" -> "\t"
      [] e = "r" -> "\r"
      [] e = "f" -> "\f"
      [] e = "b" -> "U+0008"
      [] OTHER -> e

\* The char a \uXXXX escape stands for, by its four hex digits, which are
\* read in either case.  The escapes read are those of the two chars
\* outside ASCII; any other is refused.
UnicodeEscapes ==
    (<< "0", "0", "e", "9" >> :> EAcute) @@ (<< "0", "0", "E", "9" >> :> EAcute) @@
    (<< "2", "0", "a", "c" >> :> Euro) @@ (<< "2", "0", "A", "C" >> :> Euro) @@
    (<< "2", "0", "a", "C" >> :> Euro) @@ (<< "2", "0", "A", "c" >> :> Euro)

\* The chars of a JSON string from p, just after its opening quote
RECURSIVE StringBody(_, _, _)
StringBody(s, p, acc) ==
    LET c == At(s, p) IN
    IF c \in {"EOF", "\n", "\t", "\r"} THEN Fail
    ELSE IF c = "\"" THEN Read(p + 1, acc)
    ELSE IF c = "\\"
    THEN IF At(s, p + 1) \in {"\"", "\\", "/", "n", "t", "r", "f", "b"}
         THEN StringBody(s, p + 2, Append(acc, Unescape(At(s, p + 1))))
         ELSE IF /\ At(s, p + 1) = "u"
                 /\ p + 5 <= Len(s)
                 /\ SubSeq(s, p + 2, p + 5) \in DOMAIN UnicodeEscapes
         THEN StringBody(s, p + 6, Append(acc, UnicodeEscapes[SubSeq(s, p + 2, p + 5)]))
         ELSE Fail
    ELSE StringBody(s, p + 1, Append(acc, c))

JsonString(s, p) == IF At(s, p) = "\"" THEN StringBody(s, p + 1, << >>) ELSE Fail

\* WorkerTask { identity: String, task: String }
IdentityKey == << "i", "d", "e", "n", "t", "i", "t", "y" >>
TaskKey == << "t", "a", "s", "k" >>
WorkerTask(identity, task) == [identity |-> identity, task |-> task]

\* The members of an object from the key at p: a field given twice is an
\* error, an unknown key is skipped, and both fields must have been read when
\* the object closes
RECURSIVE Members(_, _, _, _)
Members(s, p, seen, wt) ==
    LET k == JsonString(s, p)
        colon == SkipWs(s, k.pos)
        v == JsonString(s, SkipWs(s, colon + 1))
        field == IF k.val = IdentityKey THEN {"identity"}
                 ELSE IF k.val = TaskKey THEN {"task"} ELSE {}
        wt2 == IF k.val = IdentityKey THEN [wt EXCEPT !.identity = v.val]
               ELSE IF k.val = TaskKey THEN [wt EXCEPT !.task = v.val] ELSE wt
        e == SkipWs(s, v.pos)
    IN IF ~k.ok THEN Fail
       ELSE IF At(s, colon) # ":" THEN Fail
       ELSE IF ~v.ok THEN Fail
       ELSE IF field \cap seen # {} THEN Fail
       ELSE IF At(s, e) = "," THEN Members(s, SkipWs(s, e + 1), seen \cup field, wt2)
       ELSE IF At(s, e) = "}"
       THEN IF seen \cup field = {"identity", "task"} THEN Read(e + 1, wt2) ELSE Fail
       ELSE Fail

\* A WorkerTask written as an object
JsonObject(s, p) ==
    LET q == SkipWs(s, p + 1) IN
    IF At(s, q) = "}" THEN Fail
    ELSE Members(s, q, {}, WorkerTask(<< >>, << >>))

\* A WorkerTask written as the array of its two fields, which a derived
\* Deserialize also reads
JsonTuple(s, p) ==
    LET a == JsonString(s, SkipWs(s, p + 1))
        comma == SkipWs(s, a.pos)
        b == JsonString(s, SkipWs(s, comma + 1))
        e == SkipWs(s, b.pos)
    IN IF ~a.ok THEN Fail
       ELSE IF At(s, comma) # "," THEN Fail
       ELSE IF ~b.ok THEN Fail
       ELSE IF At(s, e) # "]" THEN Fail
       ELSE Read(e + 1, WorkerTask(a.val, b.val))

JsonTask(s, p) ==
    IF At(s, p) = "{" THEN JsonObject(s, p)
    ELSE IF At(s, p) = "[" THEN JsonTuple(s, p)
    ELSE Fail

\* The elements of the array from the element at p
RECURSIVE Elements(_, _, _)

\* what follows the element t that was just read
AfterElement(s, acc, t) ==
    IF ~t.ok THEN Fail
    ELSE LET e == SkipWs(s, t.pos) IN
         IF At(s, e) = "," THEN Elements(s, SkipWs(s, e + 1), Append(acc, t.val))
         ELSE IF At(s, e) = "]" THEN Read(e + 1, Append(acc, t.val))
         ELSE Fail

Elements(s, p, acc) == AfterElement(s, acc, JsonTask(s, p))

\* from_str: one array, then nothing but whitespace
ArrayBody(s, q) ==
    IF At(s, q) = "]" THEN Read(q + 1, << >>) ELSE Elements(s, q, << >>)

TrailingWs(s, r) == IF r.ok /\ SkipWs(s, r.pos) = Len(s) + 1 THEN r ELSE Fail

from_str(s) ==
    LET p == SkipWs(s, 1) IN
    IF At(s, p) # "[" THEN Fail
    ELSE TrailingWs(s, ArrayBody(s, SkipWs(s, p + 1)))

\* ------------------------- serde_json::to_string(&Vec<WorkerTask>)
\* A char as the encoder writes it inside a string: quote, backslash and
\* control chars are escaped, chars outside ASCII are written as they are
Escape(c) ==
    CASE c = "\"" -> << "\\", "\"" >>
      [] c = "\\" -> << "\\", "\\" >>
      [] c = "\n" -> << "\\", "n" >>
      [] c = "\t" -> << "\\", "t" >>
      [] c = "\r" -> << "\\", "r" >>
      [] c = "\f" -> << "\\", "f" >>
      [] c = "U+0008" -> << "\\", "b" >>
      [] OTHER -> << c >>

RECURSIVE EscapeAll(_)
EscapeAll(str) == IF str = << >> THEN << >> ELSE Escape(Head(str)) \o EscapeAll(Tail(str))

\* A string value as JSON
to_json_string(str) == << "\"" >> \o EscapeAll(str) \o << "\"" >>

\* One WorkerTask as JSON: its fields in declaration order
to_json_task(wt) ==
    << "{" >> \o to_json_string(IdentityKey) \o << ":" >> \o to_json_string(wt.identity)
        \o << "," >> \o to_json_string(TaskKey) \o << ":" >> \o to_json_string(wt.task)
        \o << "}" >>

RECURSIVE JoinTasks(_)
JoinTasks(tasks) ==
    IF tasks = << >> THEN << >>
    ELSE IF Len(tasks) = 1 THEN to_json_task(tasks[1])
    ELSE to_json_task(tasks[1]) \o << "," >> \o JoinTasks(Tail(tasks))

\* to_string of a task list
to_string(tasks) == << "[" >> \o JoinTasks(tasks) \o << "]" >>

\* Option<Vec<WorkerTask>>, or a panic
None == [kind |-> "None", tasks |-> << >>]
Some(tasks) == [kind |-> "Some", tasks |-> tasks]
Panic == [kind |-> "Panic", tasks |-> << >>]
Pending == [kind |-> "pending", tasks |-> << >>]

\* parse_delegation lines 168-172: the decoder's result, an empty list
\* counting as no directive
TasksOrNone(tasks) ==
    IF ~tasks.ok THEN None
    ELSE IF tasks.val = << >> THEN None
    ELSE Some(tasks.val)

\* parse_delegation lines 167-168: the extracted array goes to from_str
Decoded(json_str) ==
    IF json_str.kind = "Panic" THEN Panic
    ELSE IF json_str.kind = "None" THEN None
    ELSE TasksOrNone(from_str(json_str.str))

\* MasterClanker::parse_delegation
parse_delegation(r) ==
    LET trimmed == trim(r) IN
    IF ~starts_with(trimmed, DELEGATE_PREFIX) THEN None
    ELSE LET json_start == trim(strip_prefix(trimmed, DELEGATE_PREFIX)) IN
         IF json_start = << >> THEN None
         ELSE Decoded(extract_json_array(json_start))

\* ------------------------------------------------- replies that are parsed
\* Contents of JSON strings, as written between the quotes
Texts == { << "A" >>,
           << "T", "1" >>,
           << EAcute >>,
           << Euro, Euro, Euro, Euro >>,
           << "]" >>,
           << "\\", "\"" >>,
           << "\\", "u", "0", "0", "e", "9" >>,
           << "i", "t", "'", "s" >> }

Quoted(x) == << "\"" >> \o x \o << "\"" >>
Member(key, x) == Quoted(key) \o << ":" >> \o Quoted(x)
TaskObject(identity, task) ==
    << "{" >> \o Member(IdentityKey, identity) \o << "," >> \o Member(TaskKey, task)
        \o << "}" >>
Array(body) == << "[" >> \o body \o << "]" >>

\* What follows the prefix: task lists of one and two tasks, and texts that
\* are no task list
Bodies ==
    {Array(TaskObject(i, t)) : i \in Texts, t \in Texts}
    \cup {Array(TaskObject(<< "A" >>, << "T", "1" >>) \o << "," >> \o TaskObject(i, << "A" >>))
            : i \in Texts}
    \cup {Array(Quoted(x)) : x \in Texts}
    \cup { << >>,
           Array(<< >>),
           Array(<< " " >>),
           << "[", "b", "o", "g", "u", "s" >>,
           << "[" >> \o TaskObject(<< "A" >>, << "A" >>),
           TaskObject(<< "A" >>, << "A" >>),
           Array(<< "{" >> \o Member(IdentityKey, << "A" >>) \o << "}" >>),
           Array(<< "{" >> \o Member(TaskKey, << "A" >>) \o << "," >>
                   \o Member(<< "x" >>, << Euro >>) \o << "," >>
                   \o Member(IdentityKey, << "A" >>) \o << "}" >>),
           Array(<< "{" >> \o Member(TaskKey, << "A" >>) \o << "," >>
                   \o Member(TaskKey, << "A" >>) \o << "," >>
                   \o Member(IdentityKey, << "A" >>) \o << "}" >>),
           Array(Array(Quoted(<< "A" >>) \o << "," >> \o Quoted(<< EAcute >>))),
           Array(Array(<< >>)) }

Leads == { << >>, << " " >>, << "H", "i", " " >> }
Heads == { << >>, DELEGATE_PREFIX, << "[", "D", "E", "L", "E", "G", "A", "T", "E" >> }
Gaps == { << >>, << " " >> }
Trails == { << >>, << " ", "o", "k" >>, << " ", "[", "]", "\n" >> }

Responses == {l \o h \o g \o b \o t :
                 l \in Leads, h \in Heads, g \in Gaps, b \in Bodies, t \in Trails}

\* The specifications of the gateway and of the requests parse nothing.
ParseUnused ==
    /\ response = << >>
    /\ parsed = Pending

\* No ConnectionState operation is applied outside its own specification.
ConnUnused ==
    /\ last_op = [c \in Conns |-> [ch \in Channels |-> "none"]]

\* core/src/types.rs lines 25-40, Message::new: the id is a fresh uuid
Message_new(id, channel_type, channel_id, sender) ==
    [id |-> id, channel_type |-> channel_type, channel_id |-> channel_id,
     sender |-> sender]

NoMessage == Message_new(0, "-", "-", "-")

\* The processing loop before server.rs spawns it
IdleLoop == [channels |-> << >>, pc |-> "absent", incoming |-> NoMessage,
             response |-> NoMessage, sent |-> << >>, next_id |-> 1]

\* The loop's messages are not followed outside their own specification.
ReplyUnused ==
    /\ reply_loop = IdleLoop

\* No error value is examined outside the error type's own specification.
ErrUnused ==
    /\ err = [kind |-> "none", message |-> << >>]
    /\ retryable = [asked |-> FALSE, value |-> FALSE]

\* TelegramChannel::new, DiscordChannel::new: connected is false; listen has
\* not been entered, nothing was sent
NewAdapter == [connected |-> FALSE, pc |-> "new", sends |-> 0, delivered |-> 0,
               result |-> "none"]

\* The adapters are not followed outside their own specification.
AdaptersUnused ==
    /\ adapter = [t \in ChannelTypes |-> NewAdapter]

\* No client frame is followed outside the frames' own specification.
FramesUnused ==
    /\ inbox = << >>
    /\ arrived = 0
    /\ handled = << >>
    /\ replies = << >>
    /\ frame_pc = "select"
    /\ frame_cur = 0

\* ------------------------------------ process_message inside the gateway
\* Replies of the master LLM to the orchestration flow's first call: a
\* directive in ASCII and one whose task text is not
MasterReplies ==
    {DELEGATE_PREFIX \o Array(TaskObject(<< "A" >>, << "T", "1" >>)),
     DELEGATE_PREFIX \o Array(TaskObject(<< "A" >>, << Euro, Euro, Euro, Euro >>))}

\* The replies on which parse_delegation panics (orchestrator.rs line 224)
PanickingReplies == {reply \in MasterReplies : parse_delegation(reply) = Panic}

\* processor.rs lines 25-28 and 125-128: with orchestration enabled the
\* master's reply goes through parse_delegation, whose panic unwinds
\* process_message and the task that awaits it
ProcessPanics(orchestration, reply) ==
    orchestration /\ reply \in PanickingReplies

\* server.rs lines 68-88: the task of the processing loop unwinds out of
\* process_message; its rx is dropped, which closes the queue, and the
\* message in hand is lost
DispProcessPanic ==
    /\ disp_pc = "processing"
    /\ \E reply \in MasterReplies : ProcessPanics(cfg.orchestration, reply)
    /\ disp_pc' = "panicked"
    /\ disp_msg' = 0
    /\ ingress' = << >>
    /\ UNCHANGED << emitted, listener_pc, tg_connected, shutdown >>
    /\ delivery' = NoDelivery
    /\ UNCHANGED wsVars
    /\ UNCHANGED << orchVars, parseVars, connVars, frameVars, chanVars, errVars, replyVars >>

\* handlers.rs line 206: the session's task unwinds out of process_message;
\* its locals are dropped and remove_connection (line 148) is not reached
WsProcessPanic(c) ==
    /\ ws_pc[c] = "processing"
    /\ \E reply \in MasterReplies : ProcessPanics(cfg.orchestration, reply)
    /\ ws_pc' = [ws_pc EXCEPT ![c] = "panicked"]
    /\ exit_path' = [exit_path EXCEPT ![c] = "panic"]
    /\ DropLocals(c)
    /\ UNCHANGED << connections, shutdown, total_messages, topic >>
    /\ delivery' = NoDelivery
    /\ UNCHANGED << dispVars, history >>
    /\ UNCHANGED << orchVars, parseVars, connVars, frameVars, chanVars, errVars, replyVars >>

\* ------------------------------------------------------------ processor.rs
\* Concurrent requests: each is one call of process_message (from a
\* send_message handler or from the processing loop) or one direct call of
\* MasterClanker::delegate.
MaxReqs == 2        \* concurrent requests
MaxWorkers == 2     \* largest max_workers configured
MaxTasks == 3       \* longest delegation directive

Reqs == 1..MaxReqs

Min(a, b) == IF a <= b THEN a ELSE b

\* Configurations: orchestration enabled with an orchestrator present, a
\* fallback agent with a non-empty key, a Groq key for the workers, and
\* max_workers.
Configs == [orchestration : BOOLEAN, fallback : BOOLEAN, worker_key : BOOLEAN,
            max_workers : 0..MaxWorkers]

IdleReq == [pc |-> "idle", kind |-> "-", empty |-> FALSE, tasks |-> 0, n |-> 0,
            held |-> 0, workers |-> << >>, results |-> << >>, log |-> << >>,
            messages |-> << >>, out |-> "-", directive |-> FALSE]

\* AgentMessage { role, content }.  The content is named by the text it is
\* built from; results holds the worker results formatted into it.
AgentMsg(role, content) == [role |-> role, content |-> content, results |-> << >>]

\* process_with_orchestration lines 95-104: the list of the first call
FirstMessages == << AgentMsg("system", "MASTER_SYSTEM_PROMPT"),
                   AgentMsg("user", "user_content") >>

\* process_direct lines 52-55
DirectMessages == << AgentMsg("user", "user_content") >>

\* delegate lines 91-130: the content of a worker's result
ResultContent(outcome) ==
    CASE outcome = "ok" -> "resp.content"
      [] outcome = "worker_error" -> "[Worker error: ..]"
      [] outcome = "no_key" -> "[Error: Groq API key not configured for worker ..]"

\* process_with_orchestration lines 153-157: one formatted entry per
\* result delegate returned, in that order
results_text(workers, results) ==
    [k \in 1..Len(results) |->
        [worker |-> results[k], content |-> ResultContent(workers[results[k]])]]

\* A synthesis list that starts over instead of extending the first one.
push_synthesis_fresh(messages, text) ==
    << AgentMsg("system", "MASTER_SYSTEM_PROMPT"),
       [AgentMsg("user", "Worker_Clanker results") EXCEPT !.results = text] >>

\* lines 159-169: the master's reply and the worker results are pushed on
\* the list of the first call
push_synthesis(messages, text) ==
    messages \o << AgentMsg("assistant", "master_response"),
                   [AgentMsg("user", "Worker_Clanker results") EXCEPT !.results = text] >>

\* process_message line 15: the error of an empty text
EmptyTextError == "Message text cannot be empty"

\* Mutant of Route: an empty text is processed like any other.
RouteUnchecked(empty, orchestration) ==
    IF orchestration THEN "orchestration" ELSE "direct"

\* process_message lines 13-34: an empty text is rejected before anything
\* else; otherwise the orchestration flow runs when orchestration is enabled
\* and an orchestrator exists, the direct flow otherwise
Route(empty, orchestration) ==
    IF empty THEN "rejected"
    ELSE IF orchestration THEN "orchestration" ELSE "direct"

\* Results of process_message that are Err(e)
Errors == {"error", EmptyTextError}

\* handle_client_message, SendMessage, lines 206-225: the frame built from
\* the result of process_message
send_response(out) ==
    IF out \in Errors
    THEN [kind |-> "send_response", success |-> FALSE, error |-> out, content |-> "-"]
    ELSE [kind |-> "send_response", success |-> TRUE, error |-> "-", content |-> out]

\* The gateway specifications run no request.
OrchUnused ==
    /\ cfg = [orchestration |-> FALSE, fallback |-> FALSE, worker_key |-> FALSE,
              max_workers |-> 0]
    /\ permits = 0
    /\ active_workers = 0
    /\ req = [r \in Reqs |-> IdleReq]

\* The gateway specifications run with orchestration enabled; what a
\* request does inside process_message is in the requests' specification.
GatewayConfig == [orchestration |-> TRUE, fallback |-> FALSE, worker_key |-> FALSE,
                  max_workers |-> MaxWorkers]

OrchConfigured ==
    /\ cfg = GatewayConfig
    /\ permits = cfg.max_workers
    /\ active_workers = 0
    /\ req = [r \in Reqs |-> IdleReq]

\* One LLM call, as the request's log keeps it
Call(site, who, ok) == [site |-> site, who |-> who, ok |-> ok]

\* Mutant of UseFallback: the fallback is tried whenever one is configured.
UseFallbackAlways(ok, fallback) == fallback

\* process_direct lines 58-67, process_with_orchestration lines 106-110 and
\* 171-175: the fallback is called when the primary call returned Err and a
\* fallback agent is configured
UseFallback(ok, fallback) == ~ok /\ fallback

\* Mutant of AcquireCount: one permit per request.
AcquireOne(n) == 1

\* process_with_orchestration lines 136-143: acquire_many_owned(n)
AcquireCount(n) == n

\* Mutant of WorkerCap: the directive is not capped.
WorkerCapNone(len, k) == len

\* A directive with tasks always gets at least one worker.
WorkerCapAtLeastOne(len, k) == IF len > 0 /\ Min(len, k) = 0 THEN 1 ELSE Min(len, k)

\* process_with_orchestration line 129, delegate line 81:
\* len.min(max_workers), take(max_workers)
WorkerCap(len, k) == Min(len, k)

\* Mutant of GaugeAfterJoin: the decrement is one short.
GaugeAfterJoinShort(g, n) == g - (n - 1)

\* process_with_orchestration line 150: decrement_worker_count(n)
GaugeAfterJoin(g, n) == g - n

\* Every reply of the master or of the fallback goes through
\* parse_delegation.
parses_reply_always(site, who) == TRUE

\* Every reply to the first call goes through parse_delegation.
parses_reply_first(site, who) == site = "first"

\* process_with_orchestration: parse_delegation is called once, line 128,
\* on the master's reply to the first call; the fallback's replies (lines
\* 110-118, 176-184) and the synthesis reply (line 190) are returned as
\* they are
parses_reply(site, who) == site = "first" /\ who = "primary"

\* Where a request goes with a reply that is final unless it is parsed and
\* begins with a directive
AfterReply(site, who, directive) ==
    IF parses_reply(site, who) /\ directive THEN "acquire" ELSE "done"

\* process_with_orchestration line 145: increment_worker_count(n)
GaugeAfterSpawn(g, n) == g + n

\* The permit is forgotten when the request leaves the delegation block.
ReleaseNone(r) == permits' = permits

\* The owned permit is dropped when the request leaves the delegation
\* block (process_with_orchestration lines 137, 177-190)
Release(r) == permits' = permits + req[r].held

Finished(r, out) == [req[r] EXCEPT !.pc = "done", !.out = out, !.held = 0]

\* process_message lines 12-34: reject empty text, else route to the
\* orchestration flow or the direct flow; the first LLM call is in flight
ProcessMessage(r) ==
    /\ req[r].pc = "idle"
    /\ \E empty \in BOOLEAN :
          LET kind == Route(empty, cfg.orchestration)
              incoming == [IdleReq EXCEPT !.empty = empty, !.kind = kind]
          IN req' = [req EXCEPT ![r] =
                    IF kind = "rejected"
                    THEN [incoming EXCEPT !.pc = "done", !.out = EmptyTextError]
                    ELSE IF kind = "orchestration"
                    THEN [incoming EXCEPT !.pc = "master1", !.messages = FirstMessages]
                    ELSE [incoming EXCEPT !.pc = "direct", !.messages = DirectMessages]]
    /\ UNCHANGED << cfg, permits, active_workers, gwVars, parseVars, connVars, frameVars, chanVars, errVars, replyVars >>

\* process_direct lines 57-81: the primary call returns
DirectReturn(r) ==
    /\ req[r].pc = "direct"
    /\ \E ok \in BOOLEAN :
          LET logged == [req[r] EXCEPT !.log = Append(@, Call("direct", "primary", ok))]
          IN req' = [req EXCEPT ![r] =
                IF UseFallback(ok, cfg.fallback)
                THEN [logged EXCEPT !.pc = "fallback_direct"]
                ELSE [logged EXCEPT !.pc = "done",
                                    !.out = IF ok THEN "reply" ELSE "error"]]
    /\ UNCHANGED << cfg, permits, active_workers, gwVars, parseVars, connVars, frameVars, chanVars, errVars, replyVars >>

\* process_direct lines 67-79: the fallback call returns
FallbackDirectReturn(r) ==
    /\ req[r].pc = "fallback_direct"
    /\ \E ok \in BOOLEAN :
          req' = [req EXCEPT ![r] =
                    [@ EXCEPT !.log = Append(@, Call("direct", "fallback", ok)),
                              !.pc = "done",
                              !.out = IF ok THEN "fallback_reply" ELSE "error"]]
    /\ UNCHANGED << cfg, permits, active_workers, gwVars, parseVars, connVars, frameVars, chanVars, errVars, replyVars >>

\* process_with_orchestration lines 106-133: the master's first call
\* returns.  len is the length of the task list parse_delegation finds in the
\* reply (0: no directive).
MasterFirstReturn(r) ==
    /\ req[r].pc = "master1"
    /\ \E ok \in BOOLEAN, len \in 0..MaxTasks :
          LET logged == [req[r] EXCEPT !.log = Append(@, Call("first", "primary", ok))]
              n == WorkerCap(len, cfg.max_workers)
          IN /\ ~ok => len = 0
             /\ ~parses_reply("first", "primary") => len = 0
             /\ req' = [req EXCEPT ![r] =
                   IF UseFallback(ok, cfg.fallback)
                   THEN [logged EXCEPT !.pc = "fallback_first"]
                   ELSE IF ~ok
                   THEN [logged EXCEPT !.pc = "done", !.out = "error"]
                   ELSE IF len = 0 \/ n = 0
                   THEN [logged EXCEPT !.pc = "done", !.out = "master_reply",
                                       !.tasks = len, !.directive = len > 0]
                   ELSE [logged EXCEPT !.pc = "acquire", !.tasks = len, !.n = n]]
    /\ UNCHANGED << cfg, permits, active_workers, gwVars, parseVars, connVars, frameVars, chanVars, errVars, replyVars >>

\* lines 110-120: the fallback for the first call returns; its reply is final
FallbackFirstReturn(r) ==
    /\ req[r].pc = "fallback_first"
    /\ \E ok \in BOOLEAN, directive \in BOOLEAN :
          /\ ~ok => ~directive
          /\ req' = [req EXCEPT ![r] =
                    [@ EXCEPT !.log = Append(@, Call("first", "fallback", ok)),
                              !.pc = AfterReply("first", "fallback", directive),
                              !.directive = directive,
                              !.out = IF ok THEN "fallback_reply" ELSE "error"]]
    /\ UNCHANGED << cfg, permits, active_workers, gwVars, parseVars, connVars, frameVars, chanVars, errVars, replyVars >>

\* The permits are taken one by one, each kept while the next is awaited.
AcquirePermitsStepwise(r) ==
    /\ req[r].pc = "acquire"
    /\ permits >= 1
    /\ permits' = permits - 1
    /\ req' = [req EXCEPT ![r] =
                 [@ EXCEPT !.pc = IF req[r].held + 1 >= req[r].n THEN "acquired" ELSE "acquire",
                           !.held = req[r].held + 1]]
    /\ UNCHANGED << cfg, active_workers, gwVars, parseVars, connVars, frameVars, chanVars, errVars, replyVars >>

\* lines 136-143: acquire_many_owned waits until that many permits are free
AcquirePermits(r) ==
    /\ req[r].pc = "acquire"
    /\ permits >= AcquireCount(req[r].n)
    /\ permits' = permits - AcquireCount(req[r].n)
    /\ req' = [req EXCEPT ![r] = [@ EXCEPT !.pc = "acquired",
                                           !.held = AcquireCount(req[r].n)]]
    /\ UNCHANGED << cfg, active_workers, gwVars, parseVars, connVars, frameVars, chanVars, errVars, replyVars >>

\* lines 145-148 with delegate lines 80-132: bump the gauge, take(n), and
\* delegate spawns one task per worker of its own take(max_workers)
SpawnWorkers(r) ==
    /\ req[r].pc = "acquired"
    /\ active_workers' = GaugeAfterSpawn(active_workers, req[r].n)
    /\ req' = [req EXCEPT ![r] =
                 [@ EXCEPT !.pc = "workers",
                           !.workers = [i \in 1..WorkerCap(req[r].n, cfg.max_workers)
                                          |-> "running"]]]
    /\ UNCHANGED << cfg, permits, gwVars, parseVars, connVars, frameVars, chanVars, errVars, replyVars >>

\* orchestrator.rs tests lines 281-322: delegate called directly with a
\* task list of any length
DelegateCall(r) ==
    /\ req[r].pc = "idle"
    /\ \E len \in 0..MaxTasks :
          req' = [req EXCEPT ![r] =
                    [IdleReq EXCEPT !.pc = "workers", !.kind = "delegate",
                                    !.tasks = len,
                                    !.workers = [i \in 1..WorkerCap(len, cfg.max_workers)
                                                   |-> "running"]]]
    /\ UNCHANGED << cfg, permits, active_workers, gwVars, parseVars, connVars, frameVars, chanVars, errVars, replyVars >>

\* delegate lines 88-131: one spawned worker task ends.  Without a Groq key
\* it yields the inline error result; otherwise the Groq client is built
\* (GroqAgent::new panics if the HTTP client cannot be built) and the chat
\* call returns Ok or Err, both turned into a WorkerResult.
WorkerOutcomes == IF cfg.worker_key THEN {"ok", "worker_error", "panicked"}
                  ELSE {"no_key"}

WorkerFinish(r, i) ==
    /\ req[r].pc = "workers"
    /\ i \in DOMAIN req[r].workers
    /\ req[r].workers[i] = "running"
    /\ \E o \in WorkerOutcomes :
          req' = [req EXCEPT ![r] = [@ EXCEPT !.workers = [@ EXCEPT ![i] = o]]]
    /\ UNCHANGED << cfg, permits, active_workers, gwVars, parseVars, connVars, frameVars, chanVars, errVars, replyVars >>

\* A join that keeps the successful workers only.
RECURSIVE CollectOk(_, _)
CollectOk(workers, i) ==
    IF i > Len(workers) THEN << >>
    ELSE IF workers[i] # "ok" THEN CollectOk(workers, i + 1)
    ELSE << i >> \o CollectOk(workers, i + 1)

\* delegate lines 134-143: the handles are awaited in spawn order; a join
\* error is logged and its worker contributes no result
RECURSIVE Collect(_, _)
Collect(workers, i) ==
    IF i > Len(workers) THEN << >>
    ELSE IF workers[i] = "panicked" THEN Collect(workers, i + 1)
    ELSE << i >> \o Collect(workers, i + 1)

\* delegate returns; process_with_orchestration lines 148-171 drop the gauge
\* and issue the synthesis call
JoinWorkers(r) ==
    /\ req[r].pc = "workers"
    /\ \A i \in DOMAIN req[r].workers : req[r].workers[i] # "running"
    /\ IF req[r].kind = "delegate"
       THEN /\ req' = [req EXCEPT ![r] =
                         [@ EXCEPT !.pc = "done", !.out = "results",
                                   !.results = Collect(req[r].workers, 1)]]
            /\ UNCHANGED active_workers
       ELSE /\ req' = [req EXCEPT ![r] =
                         [@ EXCEPT !.pc = "synthesis",
                                   !.results = Collect(req[r].workers, 1),
                                   !.messages =
                                       push_synthesis(@, results_text(req[r].workers,
                                                          Collect(req[r].workers, 1)))]]
            /\ active_workers' = GaugeAfterJoin(active_workers, req[r].n)
    /\ UNCHANGED << cfg, permits, gwVars, parseVars, connVars, frameVars, chanVars, errVars, replyVars >>

\* lines 171-190: the synthesis call returns
SynthesisReturn(r) ==
    /\ req[r].pc = "synthesis"
    /\ \E ok \in BOOLEAN, directive \in BOOLEAN :
          LET logged == [req[r] EXCEPT !.log = Append(@, Call("synthesis", "primary", ok))]
          IN /\ ~ok => ~directive
             /\ IF UseFallback(ok, cfg.fallback)
                THEN /\ req' = [req EXCEPT ![r] = [logged EXCEPT !.pc = "fallback_synthesis"]]
                     /\ UNCHANGED permits
                ELSE /\ req' = [req EXCEPT ![r] =
                                  [logged EXCEPT
                                      !.pc = AfterReply("synthesis", "primary", directive),
                                      !.held = 0,
                                      !.directive = directive,
                                      !.out = IF ok THEN "synthesis_reply"
                                              ELSE "error"]]
                     /\ Release(r)
    /\ UNCHANGED << cfg, active_workers, gwVars, parseVars, connVars, frameVars, chanVars, errVars, replyVars >>

\* lines 175-185: the fallback for the synthesis call returns
FallbackSynthesisReturn(r) ==
    /\ req[r].pc = "fallback_synthesis"
    /\ \E ok \in BOOLEAN, directive \in BOOLEAN :
          /\ ~ok => ~directive
          /\ req' = [req EXCEPT ![r] =
                    [@ EXCEPT !.log = Append(@, Call("synthesis", "fallback", ok)),
                              !.pc = AfterReply("synthesis", "fallback", directive),
                              !.held = 0,
                              !.directive = directive,
                              !.out = IF ok THEN "fallback_reply" ELSE "error"]]
    /\ Release(r)
    /\ UNCHANGED << cfg, active_workers, gwVars, parseVars, connVars, frameVars, chanVars, errVars, replyVars >>

\* The caller takes the result; the request's slot is free for the next one.
RequestDone(r) ==
    /\ req[r].pc = "done"
    /\ req' = [req EXCEPT ![r] = IdleReq]
    /\ UNCHANGED << cfg, permits, active_workers, gwVars, parseVars, connVars, frameVars, chanVars, errVars, replyVars >>

\* No gateway task runs in the specifications of the requests and of the
\* parser.
GatewayUnused ==
    /\ connections = << >>
    /\ shutdown = FALSE
    /\ total_messages = 0
    /\ topic = EmptyTopic
    /\ ws_pc = [c \in Conns |-> "none"]
    /\ conn_state = [c \in Conns |-> NewConnectionState]
    /\ rx_next = [c \in Conns |-> NoRx]
    /\ exit_path = [c \in Conns |-> "-"]
    /\ clientSubs = [c \in Conns |-> {}]
    /\ delivery = NoDelivery
    /\ history = FALSE
    /\ ingress = << >>
    /\ emitted = 0
    /\ listener_pc = "absent"
    /\ tg_connected = FALSE
    /\ disp_pc = "absent"
    /\ disp_msg = 0

\* AppState::new for any configuration: the semaphore holds max_workers
\* permits and the gauge is 0.  No gateway task runs.
InitOrch ==
    /\ cfg \in Configs
    /\ permits = cfg.max_workers
    /\ active_workers = 0
    /\ req = [r \in Reqs |-> IdleReq]
    /\ GatewayUnused
    /\ ParseUnused
    /\ ConnUnused
    /\ FramesUnused
    /\ AdaptersUnused
    /\ ErrUnused
    /\ ReplyUnused

NextOrch ==
    \/ \E r \in Reqs : ProcessMessage(r)
    \/ \E r \in Reqs : DirectReturn(r)
    \/ \E r \in Reqs : FallbackDirectReturn(r)
    \/ \E r \in Reqs : MasterFirstReturn(r)
    \/ \E r \in Reqs : FallbackFirstReturn(r)
    \/ \E r \in Reqs : AcquirePermits(r)
    \/ \E r \in Reqs : SpawnWorkers(r)
    \/ \E r \in Reqs : DelegateCall(r)
    \/ \E r \in Reqs, i \in 1..MaxTasks : WorkerFinish(r, i)
    \/ \E r \in Reqs : JoinWorkers(r)
    \/ \E r \in Reqs : SynthesisReturn(r)
    \/ \E r \in Reqs : FallbackSynthesisReturn(r)
    \/ \E r \in Reqs : RequestDone(r)

SpecOrch == InitOrch /\ [][NextOrch]_vars

\* Scheduling of the requests.  Every LLM call, worker task and join that
\* is awaited eventually returns (weak fairness on the steps that end an
\* await), and the semaphore hands its permits out in the order they were
\* requested, so a waiter whose permits are free again and again is
\* eventually served (strong fairness on acquire_many_owned).  Nothing is
\* assumed of the arrival of new requests.
FairnessOrch ==
    /\ \A r \in Reqs : WF_vars(DirectReturn(r))
    /\ \A r \in Reqs : WF_vars(FallbackDirectReturn(r))
    /\ \A r \in Reqs : WF_vars(MasterFirstReturn(r))
    /\ \A r \in Reqs : WF_vars(FallbackFirstReturn(r))
    /\ \A r \in Reqs : SF_vars(AcquirePermits(r))
    /\ \A r \in Reqs : WF_vars(SpawnWorkers(r))
    /\ \A r \in Reqs : WF_vars(\E i \in 1..MaxTasks : WorkerFinish(r, i))
    /\ \A r \in Reqs : WF_vars(JoinWorkers(r))
    /\ \A r \in Reqs : WF_vars(SynthesisReturn(r))
    /\ \A r \in Reqs : WF_vars(FallbackSynthesisReturn(r))
    /\ \A r \in Reqs : WF_vars(RequestDone(r))

FairSpecOrch == InitOrch /\ [][NextOrch]_vars /\ FairnessOrch

\* ------------------------------------------------------------- SpecParse
\* process_with_orchestration line 128: the master's reply is parsed
ParseDelegation ==
    /\ parsed = Pending
    /\ parsed' = parse_delegation(response)
    /\ UNCHANGED << response, gwVars, orchVars, connVars, frameVars, chanVars, errVars, replyVars >>

\* A master reply has arrived and is about to be parsed.
InitParse ==
    /\ response \in Responses
    /\ parsed = Pending
    /\ ConnUnused
    /\ FramesUnused
    /\ AdaptersUnused
    /\ ErrUnused
    /\ ReplyUnused
    /\ GatewayUnused
    /\ OrchUnused

NextParse == ParseDelegation

SpecParse == InitParse /\ [][NextParse]_vars

\* -------------------------------------------------------------- SpecConn
\* ConnectionState objects under subscribe, unsubscribe and the broadcast
\* filter, as types.rs tests::test_connection_state drives them.
\* Events the filter is asked about: messages of either channel type, and the
\* other kinds of WsServerMessage
FilterEvents ==
    {[kind |-> "message_received", channel_id |-> ch, channel_type |-> t]
        : ch \in Channels, t \in ChannelTypes}
    \cup {[kind |-> k, channel_id |-> ch, channel_type |-> "-"]
            : k \in {"subscribed", "unsubscribed"}, ch \in Channels}
    \cup {[kind |-> k, channel_id |-> "-", channel_type |-> "-"]
            : k \in {"error", "pong", "health", "send_response"}}

connFrame == << connections, shutdown, total_messages, topic, ws_pc, rx_next,
                exit_path, clientSubs, history, dispVars, orchVars, parseVars,
                frameVars, chanVars, errVars, replyVars >>

\* conn_state.subscribe(channel_id, channel_type)
ConnSubscribe(c, ch, t) ==
    /\ conn_state' = [conn_state EXCEPT ![c] = subscribe(@, ch, t)]
    /\ last_op' = [last_op EXCEPT ![c][ch] = "subscribe"]
    /\ delivery' = NoDelivery
    /\ UNCHANGED connFrame

\* conn_state.unsubscribe(channel_id)
ConnUnsubscribe(c, ch) ==
    /\ conn_state' = [conn_state EXCEPT ![c] = unsubscribe(@, ch)]
    /\ last_op' = [last_op EXCEPT ![c][ch] = "unsubscribe"]
    /\ delivery' = NoDelivery
    /\ UNCHANGED connFrame

\* should_send_to_message(&event, &conn_state); the verdict is kept
ConnFilter(c, ev) ==
    /\ delivery' = [NoDelivery EXCEPT
                       !.conn = c, !.kind = ev.kind, !.channel_id = ev.channel_id,
                       !.channel_type = ev.channel_type,
                       !.forwarded = should_send_to_message(ev, conn_state[c])]
    /\ UNCHANGED << conn_state, last_op >>
    /\ UNCHANGED connFrame

InitConn ==
    /\ GatewayUnused
    /\ OrchUnused
    /\ ParseUnused
    /\ ConnUnused
    /\ FramesUnused
    /\ AdaptersUnused
    /\ ErrUnused
    /\ ReplyUnused

NextConn ==
    \/ \E c \in Conns, ch \in Channels, t \in ChannelTypes : ConnSubscribe(c, ch, t)
    \/ \E c \in Conns, ch \in Channels : ConnUnsubscribe(c, ch)
    \/ \E c \in Conns, ev \in FilterEvents : ConnFilter(c, ev)

SpecConn == InitConn /\ [][NextConn]_vars

\* AppStateInner::new with no channel configured (state.rs lines 195-211:
\* no telegram token): server.rs line 51 spawns neither listener nor
\* processing loop.
Init ==
    /\ connections = << >>
    /\ shutdown = FALSE
    /\ total_messages = 0
    /\ topic = EmptyTopic
    /\ ws_pc = [c \in Conns |-> "none"]
    /\ conn_state = [c \in Conns |-> NewConnectionState]
    /\ rx_next = [c \in Conns |-> NoRx]
    /\ exit_path = [c \in Conns |-> "-"]
    /\ clientSubs = [c \in Conns |-> {}]
    /\ delivery = NoDelivery
    /\ history = TRUE
    /\ ingress = << >>
    /\ emitted = 0
    /\ listener_pc = "absent"
    /\ tg_connected = FALSE
    /\ disp_pc = "absent"
    /\ disp_msg = 0
    /\ OrchConfigured
    /\ ParseUnused
    /\ ConnUnused
    /\ FramesUnused
    /\ AdaptersUnused
    /\ ErrUnused
    /\ ReplyUnused

SessionNext ==
    \/ \E c \in Conns : WsUpgrade(c)
    \/ \E c \in Conns : WsWelcome(c)
    \/ \E c \in Conns : WsRecvError(c)
    \/ \E c \in Conns : WsShutdown(c)
    \/ \E c \in Conns : WsBroadcastLagged(c)
    \/ \E c \in Conns : WsBroadcastEvent(c)
    \/ \E c \in Conns, ch \in Channels : WsSubscribe(c, ch)
    \/ \E c \in Conns, ch \in Channels : WsUnsubscribe(c, ch)
    \/ \E c \in Conns : WsOtherFrame(c)
    \/ \E c \in Conns : WsSendMessage(c)
    \/ \E c \in Conns : WsProcessDone(c)
    \/ \E c \in Conns : WsProcessPanic(c)
    \/ \E ev \in Events : Publish(ev)
    \/ Cancel

Next == SessionNext

Spec == Init /\ [][Next]_vars

\* The sessions with peers that may go away without a close frame or an
\* error.
NextStream ==
    \/ SessionNext
    \/ \E c \in Conns : WsStreamEnd(c)

SpecStream == Init /\ [][NextStream]_vars

\* The gateway with the Telegram channel configured: server.rs lines 51-88
\* spawn the listener and the processing loop.
InitChannels ==
    /\ connections = << >>
    /\ shutdown = FALSE
    /\ total_messages = 0
    /\ topic = EmptyTopic
    /\ ws_pc = [c \in Conns |-> "none"]
    /\ conn_state = [c \in Conns |-> NewConnectionState]
    /\ rx_next = [c \in Conns |-> NoRx]
    /\ exit_path = [c \in Conns |-> "-"]
    /\ clientSubs = [c \in Conns |-> {}]
    /\ delivery = NoDelivery
    /\ history = FALSE
    /\ ingress = << >>
    /\ emitted = 0
    /\ listener_pc = "spawned"
    /\ tg_connected = FALSE
    /\ disp_pc = "select"
    /\ disp_msg = 0
    /\ OrchConfigured
    /\ ParseUnused
    /\ ConnUnused
    /\ FramesUnused
    /\ AdaptersUnused
    /\ ErrUnused
    /\ ReplyUnused

IngressNext ==
    \/ ListenerStart
    \/ ListenerEmit
    \/ ListenerResume
    \/ ListenerSdkStop
    \/ DispRecv
    \/ DispProcessDone
    \/ DispProcessPanic
    \/ DispSend
    \/ DispShutdown

GatewayNext == SessionNext \/ IngressNext

\* Scheduling: an awaited send or LLM call completes (weak fairness); a
\* tokio::select! polls its branches in random order, so a branch that is
\* ready again and again is eventually taken (strong fairness on the
\* shutdown branches).  Nothing is assumed of the peers, the publishers, the
\* platform SDK or the signal.
Fairness ==
    /\ \A c \in Conns : WF_vars(WsWelcome(c))
    /\ \A c \in Conns : WF_vars(WsProcessDone(c))
    /\ \A c \in Conns : SF_vars(WsShutdown(c))
    /\ WF_vars(ListenerStart)
    /\ WF_vars(DispProcessDone)
    /\ WF_vars(DispSend)
    /\ SF_vars(DispShutdown)

FairSpec == InitChannels /\ [][GatewayNext]_vars /\ Fairness

\* ------------------------------------------------------------- SpecFrames
\* One session's client branch (handlers.rs lines 99-118 and 153-249) with
\* the frames waiting in the socket made explicit: frames arrive at any time,
\* the select loop reads one when it is polled.
MaxFrames == 3      \* frames the client sends

ClientFrames == {"ping", "subscribe", "unsubscribe", "send_message", "invalid", "close"}

\* handle_client_message: the reply written before the handler returns;
\* lines 171-180 subscribed, lines 182-190 unsubscribed, else as ReplyTo
ReplyNow(kind) ==
    IF kind = "subscribe" THEN "subscribed"
    ELSE IF kind = "unsubscribe" THEN "unsubscribed"
    ELSE ReplyTo(kind)

\* health_check, lines 20-43: the snapshot served by GET /health
health_check ==
    [active_connections |-> connection_count,
     total_messages |-> total_messages,
     active_workers |-> active_workers,
     max_workers |-> cfg.max_workers]

frameFrame == << connections, shutdown, topic, ws_pc, conn_state, rx_next,
                 exit_path, clientSubs, delivery, history, dispVars,
                 orchVars, parseVars, connVars, chanVars, errVars, replyVars >>

\* The client writes a frame; it waits in the socket until it is read.
FrameArrive(kind) ==
    /\ arrived < MaxFrames
    /\ arrived' = arrived + 1
    /\ inbox' = Append(inbox, [id |-> arrived + 1, kind |-> kind])
    /\ UNCHANGED << handled, replies, frame_pc, frame_cur, total_messages >>
    /\ UNCHANGED frameFrame

\* Mutant of FrameRead: the handler of a frame is started without waiting
\* for the one before.
FrameReadAhead ==
    /\ inbox # << >>
    /\ LET f == Head(inbox) IN
          /\ inbox' = Tail(inbox)
          /\ handled' = Append(handled, f)
          /\ IF f.kind = "send_message"
             THEN /\ total_messages' = total_messages + 1
                  /\ frame_pc' = "processing"
                  /\ frame_cur' = f.id
                  /\ replies' = replies
             ELSE /\ replies' = IF ReplyNow(f.kind) = "none" THEN replies
                                ELSE Append(replies, [id |-> f.id, frame |-> ReplyNow(f.kind)])
                  /\ UNCHANGED << total_messages, frame_pc, frame_cur >>
    /\ UNCHANGED arrived
    /\ UNCHANGED frameFrame

\* handle_websocket lines 100-112 with handle_client_message: the select is
\* polled only between handlers; receiver.next() yields the oldest waiting
\* frame and its handler is awaited.  Every handler but send_message's runs
\* to its reply at once; send_message (lines 192-206) bumps the counter and
\* awaits process_message.
FrameRead ==
    /\ frame_pc = "select"
    /\ inbox # << >>
    /\ LET f == Head(inbox) IN
          /\ inbox' = Tail(inbox)
          /\ handled' = Append(handled, f)
          /\ IF f.kind = "send_message"
             THEN /\ total_messages' = total_messages + 1
                  /\ frame_pc' = "processing"
                  /\ frame_cur' = f.id
                  /\ replies' = replies
             ELSE /\ replies' = IF ReplyNow(f.kind) = "none" THEN replies
                                ELSE Append(replies, [id |-> f.id, frame |-> ReplyNow(f.kind)])
                  /\ UNCHANGED << total_messages, frame_pc, frame_cur >>
    /\ UNCHANGED arrived
    /\ UNCHANGED frameFrame

\* lines 206-225: process_message returns, send_response is written, the
\* handler returns and the select is polled again
FrameProcessDone ==
    /\ frame_pc = "processing"
    /\ \E ok \in BOOLEAN :
          replies' = Append(replies, [id |-> frame_cur, frame |-> "send_response"])
    /\ frame_pc' = "select"
    /\ frame_cur' = 0
    /\ UNCHANGED << inbox, arrived, handled, total_messages >>
    /\ UNCHANGED frameFrame

InitFrames ==
    /\ GatewayUnused
    /\ OrchUnused
    /\ ParseUnused
    /\ ConnUnused
    /\ FramesUnused
    /\ AdaptersUnused
    /\ ErrUnused
    /\ ReplyUnused

NextFrames ==
    \/ \E kind \in ClientFrames : FrameArrive(kind)
    \/ FrameRead
    \/ FrameProcessDone

SpecFrames == InitFrames /\ [][NextFrames]_vars

\* ----------------------------------------------------------- SpecAdapters
\* The Telegram and Discord adapters under listen and send.
MaxSends == 2       \* sends issued on one adapter

\* Mutant of send: the connected flag is not consulted.
send_unchecked(t, connected, valid_chat_id, platform_ok) ==
    IF t = "telegram"
    THEN IF ~valid_chat_id THEN [result |-> "InvalidConfig", delivered |-> FALSE]
         ELSE IF ~platform_ok THEN [result |-> "SendFailed", delivered |-> FALSE]
         ELSE [result |-> "Ok", delivered |-> TRUE]
    ELSE [result |-> "Ok", delivered |-> FALSE]

\* TelegramChannel::send (telegram.rs lines 46-64) and DiscordChannel::send
\* (discord.rs lines 35-52): not connected is ConnectionError before
\* anything else; Telegram then parses the chat id and calls the platform;
\* Discord's send is a placeholder that calls no platform and returns Ok
send(t, connected, valid_chat_id, platform_ok) ==
    IF ~connected THEN [result |-> "ConnectionError", delivered |-> FALSE]
    ELSE IF t = "telegram"
    THEN IF ~valid_chat_id THEN [result |-> "InvalidConfig", delivered |-> FALSE]
         ELSE IF ~platform_ok THEN [result |-> "SendFailed", delivered |-> FALSE]
         ELSE [result |-> "Ok", delivered |-> TRUE]
    ELSE [result |-> "Ok", delivered |-> FALSE]

adapterFrame == << gwVars, orchVars, parseVars, connVars, frameVars, errVars, replyVars >>

\* listen / listen_with_tx is entered: connected.store(true)
AdapterListen(t) ==
    /\ adapter[t].pc = "new"
    /\ adapter' = [adapter EXCEPT ![t].pc = "listening", ![t].connected = TRUE]
    /\ UNCHANGED adapterFrame

\* listen returns (teloxide::repl ends; Discord's placeholder sleeps one
\* second and returns); connected is left as it is
AdapterListenReturn(t) ==
    /\ adapter[t].pc = "listening"
    /\ adapter' = [adapter EXCEPT ![t].pc = "returned"]
    /\ UNCHANGED adapterFrame

\* send(message)
AdapterSend(t) ==
    /\ adapter[t].sends < MaxSends
    /\ \E valid_chat_id \in BOOLEAN, platform_ok \in BOOLEAN :
          LET out == send(t, adapter[t].connected, valid_chat_id, platform_ok)
          IN adapter' = [adapter EXCEPT
                            ![t].sends = @ + 1,
                            ![t].result = out.result,
                            ![t].delivered = IF out.delivered THEN @ + 1 ELSE @]
    /\ UNCHANGED adapterFrame

InitAdapters ==
    /\ GatewayUnused
    /\ OrchUnused
    /\ ParseUnused
    /\ ConnUnused
    /\ FramesUnused
    /\ AdaptersUnused
    /\ ErrUnused
    /\ ReplyUnused

NextAdapters ==
    \/ \E t \in ChannelTypes : AdapterListen(t)
    \/ \E t \in ChannelTypes : AdapterListenReturn(t)
    \/ \E t \in ChannelTypes : AdapterSend(t)

SpecAdapters == InitAdapters /\ [][NextAdapters]_vars


\* ------------------------------------------------------------------
\* ClankerError::is_retryable, core/src/error.rs
\* ------------------------------------------------------------------

\* the variants that carry a message,
MessageVariants == {"Config", "ConfigFile", "Channel", "Agent", "TomlParse",
                    "InvalidInput", "NotFound", "Bot", "Environment"}

\* the variants that wrap an error of another crate,
ForeignVariants == {"Network", "Database", "Serialization", "Io"}

\* and the variants without data
UnitVariants == {"Authentication", "RateLimit", "Timeout"}

UpperCase == << "A", "B", "C", "D", "E", "F", "G", "H", "I", "J", "K", "L", "M",
                "N", "O", "P", "Q", "R", "S", "T", "U", "V", "W", "X", "Y", "Z" >>

LowerCase == << "a", "b", "c", "d", "e", "f", "g", "h", "i", "j", "k", "l", "m",
                "n", "o", "p", "q", "r", "s", "t", "u", "v", "w", "x", "y", "z" >>

\* str::to_lowercase, on the characters the messages are written in
to_lowercase(s) ==
    [i \in 1..Len(s) |->
        IF \E k \in 1..26 : UpperCase[k] = s[i]
        THEN LowerCase[CHOOSE k \in 1..26 : UpperCase[k] = s[i]]
        ELSE s[i]]

\* str::contains
contains(s, pat) ==
    \E i \in 0..(Len(s) - Len(pat)) : SubSeq(s, i + 1, i + Len(pat)) = pat

\* The five phrases is_transient_agent_error looks for.
TransientPhrases ==
    { << "t", "i", "m", "e", "o", "u", "t" >>,
      << "r", "a", "t", "e", " ", "l", "i", "m", "i", "t" >>,
      << "s", "e", "r", "v", "i", "c", "e", " ", "u", "n", "a", "v", "a", "i", "l", "a", "b", "l", "e" >>,
      << "t", "e", "m", "p", "o", "r", "a", "r", "y" >>,
      << "t", "r", "y", " ", "a", "g", "a", "i", "n" >> }

\* Messages an error is built with: the two of test_retryable_errors, the
\* phrases in other letter case and inside longer text, and ones without
\* any phrase.
ErrMessages ==
    { << "r", "a", "t", "e", " ", "l", "i", "m", "i", "t", " ", "e", "x", "c", "e", "e", "d", "e", "d" >>,
      << "i", "n", "v", "a", "l", "i", "d", " ", "a", "p", "i", " ", "k", "e", "y" >>,
      << "R", "e", "q", "u", "e", "s", "t", " ", "T", "i", "m", "e", "o", "u", "t" >>,
      << "5", "0", "3", " ", "S", "e", "r", "v", "i", "c", "e", " ", "U", "n", "a", "v", "a", "i", "l", "a", "b", "l", "e" >>,
      << "t", "e", "m", "p", "o", "r", "a", "r", "y" >>,
      << "T", "r", "y", " ", "a", "g", "a", "i", "n" >>,
      << "t", "i", "m", "e", " ", "o", "u", "t" >>,
      << >> }

\* is_transient_agent_error: an Agent error whose lower-cased message
\* contains one of the phrases; false for every other variant
is_transient_agent_error(e) ==
    IF e.kind = "Agent"
    THEN LET msg_lower == to_lowercase(e.message)
         IN  \E phrase \in TransientPhrases : contains(msg_lower, phrase)
    ELSE FALSE

\* is_retryable: matches!(self, Network(_) | Io(_) | Timeout | RateLimit |
\* Agent { .. } if self.is_transient_agent_error()).  The guard of a match
\* arm belongs to the whole arm, that is to every alternative of the
\* pattern, not to the last one.
is_retryable(e) ==
    /\ e.kind \in {"Network", "Io", "Timeout", "RateLimit", "Agent"}
    /\ is_transient_agent_error(e)

errFrame == << gwVars, orchVars, parseVars, connVars, frameVars, chanVars, replyVars >>

\* an error value is constructed
ErrRaise(kind, message) ==
    /\ err.kind = "none"
    /\ err' = [kind |-> kind, message |-> message]
    /\ UNCHANGED << retryable, errFrame >>

\* is_retryable is called on it
ErrCheck ==
    /\ err.kind # "none"
    /\ ~retryable.asked
    /\ retryable' = [asked |-> TRUE, value |-> is_retryable(err)]
    /\ UNCHANGED << err, errFrame >>

InitErr ==
    /\ GatewayUnused
    /\ OrchUnused
    /\ ParseUnused
    /\ ConnUnused
    /\ FramesUnused
    /\ AdaptersUnused
    /\ ErrUnused
    /\ ReplyUnused

NextErr ==
    \/ \E kind \in MessageVariants, message \in ErrMessages : ErrRaise(kind, message)
    \/ \E kind \in ForeignVariants \cup UnitVariants : ErrRaise(kind, << >>)
    \/ ErrCheck

SpecErr == InitErr /\ [][NextErr]_vars

\* ------------------------------------------------------------- SpecReply
\* The processing loop of server.rs lines 66-88 with the messages it holds
\* made explicit: what it received, the reply process_message built, and
\* what was handed to which adapter.
MaxIds == 6         \* message ids drawn (uuids)

\* state.rs lines 195-211, create_channels_from_config: the Telegram
\* adapter is created when its token is set; no other adapter is
create_channels_from_config(telegram_token) ==
    IF telegram_token THEN << "telegram" >> ELSE << >>

\* state.rs lines 129-131, channel_for: the first adapter of that type
channel_for(channels, channel_type) ==
    IF \E i \in DOMAIN channels : channels[i] = channel_type
    THEN channels[CHOOSE i \in DOMAIN channels :
                      /\ channels[i] = channel_type
                      /\ \A k \in DOMAIN channels : channels[k] = channel_type => i <= k]
    ELSE "none"

\* A reply that keeps the sender of the incoming message.
response_from_sender(incoming, id) ==
    Message_new(id, incoming.channel_type, incoming.channel_id, incoming.sender)

\* processor.rs lines 36-41: the reply process_message builds
response_message(incoming, id) ==
    Message_new(id, incoming.channel_type, incoming.channel_id, "assistant")

replyFrame == << gwVars, orchVars, parseVars, connVars, frameVars, chanVars, errVars >>

\* server.rs line 69 with telegram.rs lines 100-106: rx.recv() yields a
\* message a listener built for some chat.  The queue's senders are held by
\* the listeners of the adapters in the channel list (lines 57-64) only.
ReplyRecv(channel_type, channel_id) ==
    /\ reply_loop.pc = "select"
    /\ reply_loop.next_id + 1 <= MaxIds
    /\ channel_for(reply_loop.channels, channel_type) # "none"
    /\ reply_loop' = [reply_loop EXCEPT
                        !.pc = "processing",
                        !.incoming = Message_new(reply_loop.next_id, channel_type,
                                                 channel_id, "user id"),
                        !.next_id = @ + 1]
    /\ UNCHANGED replyFrame

\* lines 70-83: process_message returns the reply, or an error that is logged
ReplyProcessDone ==
    /\ reply_loop.pc = "processing"
    /\ \E ok \in BOOLEAN :
          reply_loop' =
              IF ok
              THEN [reply_loop EXCEPT
                      !.pc = "sending",
                      !.response = response_message(reply_loop.incoming,
                                                    reply_loop.next_id),
                      !.next_id = @ + 1]
              ELSE [reply_loop EXCEPT !.pc = "select", !.incoming = NoMessage]
    /\ UNCHANGED replyFrame

\* lines 72-80: channel_for(incoming.channel_type); the reply is handed to
\* that adapter's send, whose error is logged, or dropped with a warning
ReplySend ==
    /\ reply_loop.pc = "sending"
    /\ LET ch == channel_for(reply_loop.channels, reply_loop.incoming.channel_type)
       IN \E ok \in BOOLEAN :
             reply_loop' =
                 [reply_loop EXCEPT
                    !.pc = "select",
                    !.incoming = NoMessage,
                    !.response = NoMessage,
                    !.sent = IF ch = "none" THEN @
                             ELSE Append(@, [adapter |-> ch,
                                             incoming |-> reply_loop.incoming,
                                             response |-> reply_loop.response,
                                             ok |-> ok])]
    /\ UNCHANGED replyFrame

\* AppState::new and server.rs lines 51-54: the loop is spawned when the
\* channel list is not empty
InitReply ==
    /\ \E telegram_token \in BOOLEAN :
          LET channels == create_channels_from_config(telegram_token)
          IN reply_loop = [IdleLoop EXCEPT
                             !.channels = channels,
                             !.pc = IF channels = << >> THEN "absent" ELSE "select"]
    /\ GatewayUnused
    /\ OrchUnused
    /\ ParseUnused
    /\ ConnUnused
    /\ FramesUnused
    /\ AdaptersUnused
    /\ ErrUnused

NextReply ==
    \/ \E channel_type \in ChannelTypes, channel_id \in Channels :
          ReplyRecv(channel_type, channel_id)
    \/ ReplyProcessDone
    \/ ReplySend

SpecReply == InitReply /\ [][NextReply]_vars

\* ------------------------------------------------------------------ claims

\* C1: on every path by which handle_websocket returns, the connection
\* table no longer holds the session's id; once every session handler has
\* returned, connection_count is 0.
C1_RemovedOnEveryExit ==
    /\ \A c \in Conns : ws_pc[c] = "returned" => c \notin DOMAIN connections
    /\ (\A c \in Conns : ws_pc[c] \in {"none", "returned"}) => connection_count = 0

\* C2: a message_received event published while the session had a handled
\* subscription to its channel (and still has it) is forwarded by that
\* session; a session without a subscription to the channel does not
\* forward it.
C2_SubscriberReceives ==
    (delivery.kind = "message_received" /\ delivery.stable)
        => (delivery.forwarded <=> delivery.claimed)

\* C9: once the token is cancelled, every live session eventually returns
\* and the processing loop eventually exits (a task that has panicked has
\* ended too).
C9_CancelStopsSessionsAndDispatcher ==
    shutdown ~> ((\A c \in Conns : ws_pc[c] \in {"none", "returned", "panicked"})
                 /\ DispatcherGone)

C9_Witness ==
    /\ shutdown
    /\ disp_pc = "exited"
    /\ \E c \in Conns : exit_path[c] = "shutdown"
    /\ \A c \in Conns : ws_pc[c] \in {"none", "returned"}

\* C10: once the token is cancelled, the channel listener task eventually
\* terminates.
C10_CancelStopsListener ==
    shutdown ~> (listener_pc = "returned")

\* ---------------------------------------------------- orchestration claims
\* Requests that hold the gauge: between increment_worker_count and
\* decrement_worker_count
Fanning == {r \in Reqs : req[r].pc = "workers" /\ req[r].kind = "orchestration"}

RECURSIVE SumN(_)
SumN(S) == IF S = {} THEN 0
           ELSE LET r == CHOOSE x \in S : TRUE IN req[r].n + SumN(S \ {r})

\* C3: under every interleaving of concurrently processed requests, each of
\* which may delegate to up to max_workers workers, the active-worker counter
\* never exceeds max_workers, and neither does the number of worker tasks
\* running for those requests.
C3_WorkersBounded ==
    /\ active_workers <= cfg.max_workers
    /\ \A r \in Fanning : Len(req[r].workers) <= req[r].held
    /\ SumN(Fanning) <= cfg.max_workers

\* Two requests fan out at once and fill the cap while nothing is left.
C3_Witness ==
    /\ cfg.max_workers = MaxWorkers
    /\ Cardinality(Fanning) >= 2
    /\ active_workers = cfg.max_workers
    /\ permits = 0

FallbackCalls(L, site) ==
    {i \in 1..Len(L) : L[i].who = "fallback" /\ L[i].site = site}

\* C4: within one request the fallback agent is called at most once per LLM
\* call site, only directly after the primary call at that site failed, never
\* after a primary call that succeeded; a failed fallback call is the last LLM
\* call of the request, which ends with an error.
C4_FallbackOncePerSite ==
    \A r \in Reqs :
        LET L == req[r].log IN
        /\ \A site \in {"first", "synthesis", "direct"} :
              Cardinality(FallbackCalls(L, site)) <= 1
        /\ \A i \in 1..Len(L) :
              L[i].who = "fallback" =>
                  /\ cfg.fallback
                  /\ i > 1
                  /\ L[i-1].who = "primary"
                  /\ L[i-1].site = L[i].site
                  /\ ~L[i-1].ok
                  /\ (~L[i].ok => /\ i = Len(L)
                                  /\ req[r].pc = "done"
                                  /\ req[r].out = "error")
        /\ \A i \in 1..Len(L) :
              (L[i].who = "primary" /\ ~L[i].ok /\ ~cfg.fallback) =>
                  /\ i = Len(L)
                  /\ req[r].pc = "done"
                  /\ req[r].out = "error"

\* A request whose synthesis call and then its fallback both failed, after a
\* first call that succeeded.
C4_Witness ==
    \E r \in Reqs :
        /\ req[r].pc = "done"
        /\ req[r].out = "error"
        /\ req[r].log = << Call("first", "primary", TRUE),
                           Call("synthesis", "primary", FALSE),
                           Call("synthesis", "fallback", FALSE) >>

\* Requests whose delegate call has spawned its workers
Spawned == {r \in Reqs : req[r].workers # << >> \/ req[r].pc = "workers"}

\* Requests whose delegate call has returned
Joined == {r \in Reqs : req[r].pc \in {"synthesis", "fallback_synthesis"}
                        \/ (req[r].pc = "done" /\ req[r].kind = "delegate")
                        \/ (req[r].pc = "done" /\ req[r].results # << >>)}

C8_GaugeRestored ==
    /\ active_workers = SumN(Fanning)
    /\ Fanning = {} => active_workers = 0

\* A request that delegated has completed with a failed synthesis while no
\* request is fanning out.
C8_Witness ==
    /\ Fanning = {}
    /\ active_workers = 0
    /\ \E r \in Reqs :
          /\ req[r].pc = "done"
          /\ req[r].kind = "orchestration"
          /\ req[r].n = MaxWorkers
          /\ req[r].out = "error"

\* ------------------------------------------------------------ parser claims
\* The first complete bracket-balanced array of s, by chars
FirstArray(str) ==
    LET s == trim(str)
        i == ScanArray(s, 0, 0, FALSE, FALSE, "\"")
    IN IF ~starts_with(s, << "[" >>) \/ i = -1 THEN NoString
       ELSE SomeString(SubSeq(s, 1, i + 1))

\* What the directive rule gives for a reply
Directive(r) ==
    LET trimmed == trim(r)
        array == FirstArray(strip_prefix(trimmed, DELEGATE_PREFIX))
        tasks == from_str(array.str)
    IN IF starts_with(trimmed, DELEGATE_PREFIX) /\ array.kind = "Some"
          /\ tasks.ok /\ tasks.val # << >>
       THEN Some(tasks.val)
       ELSE None

\* C5: parse_delegation(r) is Some(tasks) exactly when the trimmed r starts
\* with [DELEGATE] and, after optional whitespace, the first complete
\* bracket-balanced JSON array decodes to a non-empty list of {identity, task}
\* objects; tasks is then that list and text after the array is ignored; in
\* every other case the result is None.
C5_ParseIsDirective ==
    parsed # Pending => parsed = Directive(response)

\* C6: parse_delegation is total: for every input, multi-byte chars before
\* the closing bracket included, it returns Some or None and never panics.
C6_ParseNeverPanics ==
    parsed.kind # "Panic"

\* ---------------------------------------------------------- ingress claims
\* Message ids are given in the order the listener emits, so a queue in
\* enqueue order holds increasing ids, all later than the message in hand.
IngressInOrder ==
    /\ \A i \in 1..(Len(ingress) - 1) : ingress[i] < ingress[i + 1]
    /\ \A i \in 1..Len(ingress) : ingress[i] > disp_msg

\* C11: the processing loop starts on the queued messages in the order they
\* were enqueued, one at a time: it takes the oldest queued message, and only
\* when it holds none, the one before having been answered, dropped or its
\* error logged.
C11_DispatcherFifo ==
    /\ []IngressInOrder
    /\ [][(disp_msg' # disp_msg /\ disp_msg' # 0) =>
             /\ disp_pc = "select"
             /\ disp_msg = 0
             /\ ingress # << >>
             /\ disp_msg' = Head(ingress)
             /\ ingress' = Tail(ingress)
             /\ disp_pc' = "processing"]_vars

\* The second message is in hand while the third waits in the queue.
C11_Witness ==
    /\ disp_pc = "processing"
    /\ disp_msg = 2
    /\ ingress = << 3 >>

\* --------------------------------------------------- broadcaster claims
\* C15: for every message that arrives from a channel listener and is
\* processed by the processing loop, an event is published on the
\* broadcaster for the subscribed WebSocket sessions, besides the reply sent
\* to the originating channel: once the loop holds a reply to send while a
\* session is listening on the broadcaster, an event has been or will be
\* stored on the topic.
C15_DispatcherPublishes ==
    (disp_pc = "sending" /\ receiver_count > 0 /\ topic.sent = 0)
        ~> (topic.sent > 0 \/ receiver_count = 0)

\* C16: handling a send_message request publishes nothing on the
\* broadcaster: from the request to its send_response the topic and every
\* receiver's position stay as they were, the frame goes to the requesting
\* connection, and no other session moves.
C16_SendMessageNotBroadcast ==
    [][\A c \in Conns :
          ((ws_pc[c] = "loop" /\ ws_pc'[c] = "processing")
           \/ (ws_pc[c] = "processing" /\ ws_pc'[c] = "loop"))
          => /\ topic' = topic
             /\ rx_next' = rx_next
             /\ \A d \in Conns \ {c} : ws_pc'[d] = ws_pc[d]
             /\ delivery'.frame # "none" =>
                    (delivery'.conn = c /\ delivery'.frame = "send_response")]_vars

\* The send_response of a request was written while the other session
\* listened on the broadcaster, and nothing was ever published.
C16_Witness ==
    /\ delivery.request = "send_message"
    /\ delivery.frame = "send_response"
    /\ topic.sent = 0
    /\ \E d \in Conns \ {delivery.conn} : ws_pc[d] = "loop" /\ rx_next[d] = 1

\* C17: publishing on the broadcaster never blocks, whatever the number of
\* receivers (zero included) and however far behind a receiver is; a
\* receiver with a full ring of unread events loses the oldest of them at the
\* next publish, and the ring never grows beyond its capacity.
C17_PublishNeverBlocks ==
    /\ [](topic.sent < MaxPublish => \A ev \in Events : ENABLED Publish(ev))
    /\ [](Len(topic.ring) <= BroadcastCapacity)
    /\ [][\A ev \in Events : Publish(ev) =>
            /\ receiver_count = 0 => topic' = topic
            /\ receiver_count > 0 => topic'.sent = topic.sent + 1
            /\ \A c \in Conns :
                  (rx_next[c] # NoRx /\ Unread(c) >= BroadcastCapacity)
                      => rx_next[c] < topic'.sent - Len(topic'.ring) + 1]_vars

\* A listening session has lost the oldest event to a publisher that went on.
C17_Witness ==
    /\ topic.sent = MaxPublish
    /\ \E c \in Conns : ws_pc[c] = "loop" /\ rx_next[c] # NoRx /\ rx_next[c] < OldestPos

\* ------------------------------------------------------ decode error claim
\* C20: a text frame that does not decode as a client request is answered
\* with error{code = "MESSAGE_ERROR"}; the session stays in the connection
\* table, subscriptions and the message counter are unchanged, and the
\* session is back in its loop for the frames that follow.
C20_DecodeErrorKeepsSession ==
    [][delivery'.request = "invalid" =>
          /\ delivery'.frame = "error:MESSAGE_ERROR"
          /\ delivery'.conn \in DOMAIN connections'
          /\ ws_pc'[delivery'.conn] = "loop"
          /\ UNCHANGED << connections, conn_state, clientSubs, total_messages,
                          topic, rx_next, ws_pc, shutdown >>]_vars

\* A session answered an undecodable frame and is still in the table, in its
\* loop, while holding a subscription.
C20_Witness ==
    /\ delivery.request = "invalid"
    /\ delivery.frame = "error:MESSAGE_ERROR"
    /\ delivery.conn \in DOMAIN connections
    /\ ws_pc[delivery.conn] = "loop"
    /\ clientSubs[delivery.conn] # {}

\* ---------------------------------------------------- ingress queue claim
\* The queue never holds more than its capacity; the listener waits exactly
\* when it emits into a full queue, and emits nothing else while it waits.
QueueBounded ==
    /\ [](Len(ingress) <= QueueCapacity)
    /\ [][(emitted' = emitted + 1 /\ Len(ingress) = QueueCapacity) =>
             (listener_pc' = "waiting" /\ ingress' = ingress)]_vars
    /\ [][(listener_pc # "waiting" /\ listener_pc' = "waiting") =>
             (emitted' = emitted + 1 /\ Len(ingress) = QueueCapacity)]_vars
    /\ [][listener_pc = "waiting" => emitted' = emitted]_vars

\* C18 as stated: the ingress queue never holds more than its capacity, and
\* a message emitted while the queue is full waits for a free slot and is
\* then queued behind the listener's earlier messages, never dropped: every
\* wait ends with the message queued.
C18_FullQueueNeverDrops ==
    /\ QueueBounded
    /\ []IngressInOrder
    /\ [][(listener_pc = "waiting" /\ listener_pc' # "waiting") =>
             ingress' = Append(ingress, emitted)]_vars

\* C18, amended: as above while the processing loop runs; once the loop's
\* task has ended the queue's receiver is dropped, and a message emitted or
\* waiting for a slot then is discarded.
C18_FullQueueDropsOnlyWithoutDispatcher ==
    /\ QueueBounded
    /\ []IngressInOrder
    /\ [][(listener_pc = "waiting" /\ listener_pc' # "waiting") =>
             IF DispatcherGone
             THEN ingress' = ingress
             ELSE ingress' = Append(ingress, emitted)]_vars

\* The listener waits with its third message on a full queue while the
\* processing loop is busy with nothing yet taken from the queue's head.
C18_Witness ==
    /\ listener_pc = "waiting"
    /\ emitted = QueueCapacity + 1
    /\ Len(ingress) = QueueCapacity
    /\ ~DispatcherGone

\* ------------------------------------------------- dispatcher fault claim
\* C19: no downstream fault ends the processing loop: after a processor
\* error, a channel send error or a reply without a sender adapter it is
\* back at its select for the next queued message, and it leaves the loop
\* only by the shutdown branch, with the token cancelled.
C19_DispatcherEndsOnlyOnShutdown ==
    [][disp_pc' # disp_pc =>
          IF disp_pc' \in {"select", "processing", "sending"}
          THEN disp_pc \in {"select", "processing", "sending"}
          ELSE disp_pc = "select" /\ disp_pc' = "exited" /\ shutdown]_vars

\* ------------------------------------------------------ empty text claim
\* C14: process_message on a message with empty text returns the error
\* "Message text cannot be empty" with no LLM call of any kind (master,
\* direct, worker, fallback) and no worker permit acquired; on the WS surface
\* the frame built from it is send_response with success = false and that
\* error text.
C14_EmptyTextRejected ==
    \A r \in Reqs :
        req[r].empty =>
            /\ req[r].pc = "done"
            /\ req[r].out = "Message text cannot be empty"
            /\ req[r].log = << >>
            /\ req[r].held = 0
            /\ req[r].workers = << >>
            /\ req[r].results = << >>
            /\ send_response(req[r].out) =
                  [kind |-> "send_response", success |-> FALSE,
                   error |-> "Message text cannot be empty", content |-> "-"]

\* An empty text has been rejected while another request is delegating with
\* permits held.
C14_Witness ==
    \E r, q \in Reqs :
        /\ req[r].empty /\ req[r].pc = "done"
        /\ req[q].held > 0 /\ req[q].log # << >>

\* ------------------------------------------------- ConnectionState claims
\* C12: the broadcast filter accepts an event for a connection exactly when
\* the event is not a message_received, or it is one and its channel_id is a
\* key of the connection's subscriptions; the channel type of the
\* subscription plays no role.
C12_FilterBySubscribedId ==
    delivery.kind # "none" =>
        (delivery.forwarded <=>
            (delivery.kind # "message_received"
             \/ delivery.channel_id \in DOMAIN conn_state[delivery.conn]))

\* A Telegram message is accepted on a subscription that was made with the
\* Discord type, while another message_received is being refused elsewhere.
C12_Witness ==
    /\ delivery.kind = "message_received"
    /\ delivery.forwarded
    /\ delivery.channel_type = "telegram"
    /\ conn_state[delivery.conn][delivery.channel_id] = "discord"

\* C13: after any sequence of subscribe and unsubscribe on a ConnectionState,
\* is_subscribed(c) holds iff the last operation that named c was a
\* subscribe, whatever was done with other channel ids, and
\* subscription_count is the number of distinct subscribed channel ids.
C13_LastOperationWins ==
    \A c \in Conns :
        /\ \A ch \in Channels :
              is_subscribed(conn_state[c], ch) <=> last_op[c][ch] = "subscribe"
        /\ subscription_count(conn_state[c]) =
              Cardinality({ch \in Channels : last_op[c][ch] = "subscribe"})

\* One channel id was subscribed and then unsubscribed while the other
\* stayed subscribed.
C13_Witness ==
    \E c \in Conns :
        /\ last_op[c]["X"] = "unsubscribe"
        /\ last_op[c]["Y"] = "subscribe"
        /\ ~is_subscribed(conn_state[c], "X")
        /\ is_subscribed(conn_state[c], "Y")
        /\ subscription_count(conn_state[c]) = 1

\* ------------------------------------------------------ close frame claim
\* C21: when a session receives an inbound close frame, its handler leaves
\* the loop and removes the connection, with no shutdown signal, receive
\* error or failed broadcast send needed: the step that handles the close
\* frame ends with the handler returned and the id out of the table.
C21_CloseFrameEndsSession ==
    [][delivery'.request = "close" =>
          /\ ws_pc'[delivery'.conn] = "returned"
          /\ delivery'.conn \notin DOMAIN connections']_vars

\* ------------------------------------------------------ frame order claim
\* Frames that get a direct reply
Answered(kind) == kind = "send_message" \/ ReplyNow(kind) # "none"

\* C22: on one connection the client's frames are handled one at a time in
\* arrival order: a frame is read only when no handler is running, it is the
\* oldest waiting one, and the direct replies come out in the order of the
\* requests that caused them, each before the next frame is read.
C22_FramesInArrivalOrder ==
    /\ [](\A i \in 1..Len(handled) : handled[i].id = i)
    /\ [](\A i \in 1..Len(replies), j \in 1..Len(replies) :
              i < j => replies[i].id < replies[j].id)
    /\ []({replies[i].id : i \in 1..Len(replies)} =
              {handled[i].id : i \in {k \in 1..Len(handled) : Answered(handled[k].kind)}}
                  \ {frame_cur})
    /\ [][Len(handled') > Len(handled) =>
             /\ frame_pc = "select" /\ frame_cur = 0
             /\ handled' = Append(handled, Head(inbox))
             /\ inbox' = Tail(inbox)]_vars

\* A send_message was processed while two later frames waited; they were
\* then read and the three replies are out in request order.
C22_Witness ==
    /\ Len(handled) = 3
    /\ handled[1].kind = "send_message"
    /\ replies = << [id |-> 1, frame |-> "send_response"],
                    [id |-> 2, frame |-> "pong"],
                    [id |-> 3, frame |-> "subscribed"] >>

\* --------------------------------------------------- health snapshot claim
\* C24: after exactly two ping requests have been handled on the WS surface
\* and no other request, GET /health reports total_messages = 2.
C24_TwoPingsCounted ==
    (frame_pc = "select" /\ Len(handled) = 2
     /\ \A i \in 1..Len(handled) : handled[i].kind = "ping")
        => health_check.total_messages = 2

\* ----------------------------------------------------- idempotence claim
\* C23: parse_delegation applied to the serialized form of its own result
\* gives that result again: whenever parse_delegation(r) = Some(tasks),
\* parse_delegation("[DELEGATE]" followed by the JSON text of tasks) =
\* Some(tasks), same identities and task texts in the same order.
C23_ParseIdempotent ==
    parsed.kind = "Some" =>
        parse_delegation(DELEGATE_PREFIX \o to_string(parsed.tasks)) = parsed

\* ---------------------------------------------------- adapter send claim
\* C25: send on an adapter whose connected flag is false returns
\* ConnectionError and delivers nothing to the platform; in particular every
\* send issued before listen was ever entered fails this way.
C25_SendNeedsConnected ==
    /\ [][\A t \in ChannelTypes :
            (adapter'[t].sends = adapter[t].sends + 1 /\ ~adapter[t].connected)
                => /\ adapter'[t].result = "ConnectionError"
                   /\ adapter'[t].delivered = adapter[t].delivered]_vars
    /\ [](\A t \in ChannelTypes :
            adapter[t].pc = "new" =>
                /\ adapter[t].delivered = 0
                /\ adapter[t].result \in {"none", "ConnectionError"})

\* Two sends on the Telegram adapter before its listen was entered, both
\* refused, while the Discord adapter is listening and has sent.
C25_Witness ==
    /\ adapter["telegram"].pc = "new"
    /\ adapter["telegram"].sends = 2
    /\ adapter["telegram"].result = "ConnectionError"
    /\ adapter["discord"].connected
    /\ adapter["discord"].result = "Ok"

\* ------------------------------------------------------ retry claim
\* C26: is_retryable returns true for Io, Network, Timeout and RateLimit
\* errors and for Agent errors whose message is transient (contains
\* timeout, rate limit, service unavailable, temporary or try again), and
\* false for every other error.
C26_RetryableVariants ==
    retryable.asked =>
        retryable.value =
            (\/ err.kind \in {"Io", "Network", "Timeout", "RateLimit"}
             \/ /\ err.kind = "Agent"
                /\ \E phrase \in TransientPhrases :
                       contains(to_lowercase(err.message), phrase))

\* What does hold of is_retryable: it is true exactly of the Agent errors
\* with a transient message.
RetryableIsTransientAgent ==
    retryable.asked =>
        retryable.value =
            (/\ err.kind = "Agent"
             /\ \E phrase \in TransientPhrases :
                    contains(to_lowercase(err.message), phrase))

\* ------------------------------------------------------ permit claim
\* C27: in a delegating request the permits acquired for the fan-out are
\* released as soon as all workers have completed, before the synthesis
\* call is issued: while the synthesis call or its fallback is in flight
\* the request holds no permits, so when no other request holds any, all
\* max_workers permits are free.
C27_NoPermitsDuringSynthesis ==
    /\ \A r \in Reqs :
          req[r].pc \in {"synthesis", "fallback_synthesis"} => req[r].held = 0
    /\ (\A r \in Reqs : req[r].pc \notin {"acquired", "workers"})
          => permits = cfg.max_workers

\* ------------------------------------------------------ synthesis claim
\* C28: in a delegating request the master is called exactly twice unless
\* a call fails: the synthesis call is issued only after every spawned
\* worker has finished, its message list is the first call's list
\* [system, user] extended by assistant = the master's response and user =
\* the worker results, and the reply to the user is the content of that
\* second call.
Delegating(r) == req[r].kind = "orchestration" /\ req[r].workers # << >>

C28_SynthesisIsSecondMasterCall ==
    \A r \in Reqs :
        /\ req[r].pc = "synthesis" =>
              /\ \A i \in DOMAIN req[r].workers : req[r].workers[i] # "running"
              /\ req[r].log = << Call("first", "primary", TRUE) >>
              /\ Len(req[r].messages) = 4
              /\ SubSeq(req[r].messages, 1, 2) = FirstMessages
              /\ req[r].messages[3] = AgentMsg("assistant", "master_response")
              /\ req[r].messages[4].role = "user"
              /\ req[r].messages[4].results =
                     results_text(req[r].workers, req[r].results)
        /\ (/\ Delegating(r)
            /\ req[r].pc = "done"
            /\ \A k \in DOMAIN req[r].log : req[r].log[k].ok) =>
              /\ req[r].log = << Call("first", "primary", TRUE),
                                 Call("synthesis", "primary", TRUE) >>
              /\ req[r].out = "synthesis_reply"

C28_Witness ==
    \E r \in Reqs :
        /\ Delegating(r)
        /\ req[r].pc = "done"
        /\ Len(req[r].workers) = 2
        /\ req[r].out = "synthesis_reply"
        /\ Len(req[r].messages) = 4

\* ------------------------------------------------------ failing worker claim
\* C29: a failing worker (provider error or missing Groq key) never cancels
\* or delays the completion of its peers and never aborts the request:
\* whatever the other workers did, a running worker can finish; once none
\* is running the join can be taken and it issues the synthesis call; and,
\* no worker task having panicked, the synthesis prompt holds exactly one
\* result entry per spawned worker, in spawn order: the LLM output for a
\* successful one, an inline error string for a failed one.
NonePanicked(r) ==
    \A i \in DOMAIN req[r].workers : req[r].workers[i] # "panicked"

C29_FailingWorkerKeepsPeersAndSynthesis ==
    /\ [](\A r \in Reqs :
            /\ req[r].pc = "workers" =>
                  /\ \A i \in DOMAIN req[r].workers :
                        req[r].workers[i] = "running" => ENABLED WorkerFinish(r, i)
                  /\ (\A i \in DOMAIN req[r].workers : req[r].workers[i] # "running")
                        => ENABLED JoinWorkers(r)
            /\ (req[r].pc = "synthesis" /\ NonePanicked(r)) =>
                  LET entries == req[r].messages[4].results
                  IN /\ Len(entries) = Len(req[r].workers)
                     /\ \A i \in DOMAIN req[r].workers :
                           /\ entries[i].worker = i
                           /\ entries[i].content =
                                 IF req[r].workers[i] = "ok" THEN "resp.content"
                                 ELSE IF req[r].workers[i] = "no_key"
                                 THEN "[Error: Groq API key not configured for worker ..]"
                                 ELSE "[Worker error: ..]")
    /\ [][\A r \in Reqs :
            (req[r].pc = "workers" /\ req[r].kind = "orchestration"
             /\ req'[r].pc # "workers") => req'[r].pc = "synthesis"]_vars

C29_Witness ==
    \E r \in Reqs :
        /\ req[r].pc = "synthesis"
        /\ Len(req[r].workers) = 2
        /\ req[r].workers[1] = "worker_error"
        /\ req[r].workers[2] = "ok"
        /\ Len(req[r].messages[4].results) = 2

\* ------------------------------------------------------ interruption claim
\* C30: if the cancellation token is cancelled while a session or the
\* dispatcher is awaiting an in-flight LLM call inside process_message, the
\* processing is interrupted: the task exits without waiting for the call
\* to return.  So, once cancelled, the step that ends a processing is the
\* task leaving, never the call returning to the loop.
C30_CancelInterruptsProcessing ==
    [][/\ (shutdown /\ disp_pc = "processing" /\ disp_pc' # "processing")
             => disp_pc' \in {"exited", "panicked"}
       /\ \A c \in Conns :
             (shutdown /\ ws_pc[c] = "processing" /\ ws_pc'[c] # "processing")
                 => ws_pc'[c] \in {"returned", "panicked"}]_vars

\* What does hold: while process_message is awaited the shutdown branch of
\* the task's select is not polled.
ProcessingIgnoresCancel ==
    /\ disp_pc = "processing" => ~ENABLED DispShutdown
    /\ \A c \in Conns : ws_pc[c] = "processing" => ~ENABLED WsShutdown(c)

\* ------------------------------------------------------ laggard claim
\* C31: a session whose broadcast receiver has fallen behind by more than
\* the topic capacity only loses the overwritten events: the session is not
\* terminated and stays in the connection table.  So a step taken by a
\* session whose receiver position was overwritten never ends the session.
C31_LaggardKeepsSession ==
    [][\A c \in Conns :
          (/\ ws_pc[c] = "loop"
           /\ rx_next[c] # NoRx
           /\ rx_next[c] < OldestPos
           /\ ~shutdown
           /\ exit_path'[c] = "broadcast_recv_error")
              => (ws_pc'[c] = "loop" /\ c \in DOMAIN connections')]_vars

\* ------------------------------------------------------ counter claim
\* C32: the total-message counter is incremented exactly once for each
\* send_message request a session handles, before the processing (so also
\* when the message is rejected or the LLM fails), and by no other
\* operation (ping, subscribe, unsubscribe, decode error, the processing of
\* channel ingress); it never decreases.  Every step raises the counter by
\* the number of send_message requests whose handling the step starts.
Starting(c) == ws_pc[c] = "loop" /\ ws_pc'[c] = "processing"

C34_ConnectedOnlyWhileListening ==
    /\ [](\A t \in ChannelTypes :
             adapter[t].connected <=> adapter[t].pc = "listening")
    /\ [][\A t \in ChannelTypes :
             (adapter[t].pc = "returned" /\ adapter'[t].sends = adapter[t].sends + 1)
                 => adapter'[t].result = "ConnectionError"]_vars

\* ------------------------------------------------------ single round claim
\* C35: per request there is at most one fan-out round: only the master's
\* first reply is parsed for a directive; the synthesis reply (and a
\* fallback's) is final even if it begins with [DELEGATE], so a request
\* that has spawned its workers never spawns again, and every request makes
\* at most 2 master calls, min(n, max_workers) worker calls and 1 fallback
\* call.
CallsBy(r, who) == {k \in DOMAIN req[r].log : req[r].log[k].who = who}

C35_OneFanOutRound ==
    /\ [](\A r \in Reqs :
             req[r].kind \in {"orchestration", "direct"} =>
                /\ Cardinality(CallsBy(r, "primary")) <= 2
                /\ Cardinality(CallsBy(r, "fallback")) <= 1
                /\ Len(req[r].workers) <= Min(req[r].tasks, cfg.max_workers))
    /\ [][\A r \in Reqs :
             /\ req[r].pc \in {"synthesis", "fallback_synthesis"}
                   => req'[r].pc \in {"synthesis", "fallback_synthesis", "done"}
             /\ (req[r].workers # << >> /\ req'[r].pc # "idle")
                   => DOMAIN req'[r].workers = DOMAIN req[r].workers]_vars

C35_Witness ==
    \E r \in Reqs :
        /\ req[r].pc = "done"
        /\ req[r].out = "synthesis_reply"
        /\ req[r].directive
        /\ Len(req[r].workers) = 2
        /\ Len(req[r].log) = 2

\* ------------------------------------------------------ fallback reply claim
\* C36: when the master's first call fails and the fallback succeeds, the
\* fallback's reply is returned as the final answer: it is not parsed for a
\* directive even if it begins with [DELEGATE], no permits are acquired, no
\* workers are spawned and no synthesis call is made.
C36_FallbackReplyIsFinal ==
    /\ [](\A r \in Reqs :
             (/\ Len(req[r].log) >= 2
              /\ req[r].log[1] = Call("first", "primary", FALSE)
              /\ req[r].log[2] = Call("first", "fallback", TRUE)) =>
                /\ req[r].pc = "done"
                /\ req[r].out = "fallback_reply"
                /\ Len(req[r].log) = 2
                /\ req[r].workers = << >>
                /\ req[r].held = 0)
    /\ [][\A r \in Reqs :
             req[r].pc = "fallback_first" =>
                /\ req'[r].pc \in {"fallback_first", "done"}
                /\ permits' = permits \/ req'[r] = req[r]
                /\ active_workers' = active_workers \/ req'[r] = req[r]]_vars

C36_Witness ==
    \E r \in Reqs :
        /\ req[r].pc = "done"
        /\ req[r].out = "fallback_reply"
        /\ req[r].directive
        /\ req[r].log = << Call("first", "primary", FALSE),
                           Call("first", "fallback", TRUE) >>

\* ------------------------------------------------------ permit leak claim
\* C37: the worker semaphore never leaks permits: on every exit path of a
\* delegating request (synthesis success, synthesis failure with or without
\* fallback, fallback failure) all permits it acquired are returned, so
\* whenever no request is inside its delegation scope the number of
\* available permits equals max_workers, and the sum of the permits held by
\* concurrent requests never exceeds max_workers.
InScope(r) == req[r].pc \in {"acquired", "workers", "synthesis", "fallback_synthesis"}

RECURSIVE HeldSum(_)
HeldSum(S) == IF S = {} THEN 0
              ELSE LET r == CHOOSE x \in S : TRUE IN req[r].held + HeldSum(S \ {r})

C37_PermitsNeverLeak ==
    /\ permits >= 0
    /\ permits + HeldSum(Reqs) = cfg.max_workers
    /\ \A r \in Reqs : ~InScope(r) => req[r].held = 0
    /\ (\A r \in Reqs : ~InScope(r)) => permits = cfg.max_workers

C37_Witness ==
    /\ cfg.max_workers = MaxWorkers
    /\ permits = MaxWorkers
    /\ \E r \in Reqs :
          /\ req[r].pc = "done"
          /\ req[r].n = MaxWorkers
          /\ req[r].out = "error"
          /\ Len(req[r].log) = 3
          /\ req[r].log[3] = Call("synthesis", "fallback", FALSE)
    /\ \E r \in Reqs :
          /\ req[r].pc = "done"
          /\ req[r].n >= 1
          /\ req[r].out = "synthesis_reply"

\* ------------------------------------------------ semaphore deadlock claim
\* C38: concurrent delegating requests cannot deadlock on the worker
\* semaphore: each request acquires all of its n <= max_workers permits in
\* one atomic acquire and holds none while waiting, so, provided every LLM
\* call eventually returns, every request waiting for permits eventually
\* acquires them and completes.
Waiting(r) == req[r].pc = "acquire"

C38_NoSemaphoreDeadlock ==
    /\ [](\A r \in Reqs : Waiting(r) =>
              /\ req[r].held = 0
              /\ req[r].n >= 1
              /\ req[r].n <= cfg.max_workers)
    /\ [][\A r \in Reqs : (Waiting(r) /\ req'[r].held # 0) =>
              /\ req'[r].held = req[r].n
              /\ req'[r].pc = "acquired"
              /\ permits' = permits - req[r].n]_vars
    /\ \A r \in Reqs : Waiting(r) ~> (req[r].pc = "acquired")
    /\ \A r \in Reqs : Waiting(r) ~> (req[r].pc = "done")

C38_Witness ==
    /\ cfg.max_workers = MaxWorkers
    /\ permits = 0
    /\ \E r, w \in Reqs :
          /\ r # w
          /\ Waiting(r)
          /\ req[r].n = MaxWorkers
          /\ req[w].pc = "synthesis"
          /\ req[w].held = MaxWorkers

\* -------------------------------------------------- zero worker cap claim
\* C39: when max_workers is 0 and the master's first reply is a valid
\* delegation directive, the request acquires no permits, spawns no workers,
\* makes no synthesis call, leaves the active-worker gauge unchanged, and
\* returns the master's raw reply (the [DELEGATE] text itself) as the final
\* answer.
Orchestrated == {r \in Reqs : req[r].kind = "orchestration"}

DirectiveReturned(r) ==
    /\ req[r].pc = "master1"
    /\ req'[r].pc # "master1"
    /\ req'[r].tasks > 0

C39_ZeroWorkersReturnsDirective ==
    /\ [](cfg.max_workers = 0 =>
            /\ permits = 0
            /\ active_workers = 0
            /\ \A r \in Orchestrated :
                  /\ req[r].pc \in {"master1", "fallback_first", "done"}
                  /\ req[r].held = 0
                  /\ req[r].n = 0
                  /\ req[r].workers = << >>
                  /\ req[r].results = << >>
                  /\ \A i \in 1..Len(req[r].log) : req[r].log[i].site = "first"
                  /\ req[r].tasks > 0 =>
                        /\ req[r].pc = "done"
                        /\ req[r].directive
                        /\ req[r].out = "master_reply"
                        /\ req[r].log = << Call("first", "primary", TRUE) >>)
    /\ [][\A r \in Reqs : (cfg.max_workers = 0 /\ DirectiveReturned(r)) =>
              /\ req'[r].pc = "done"
              /\ req'[r].out = "master_reply"
              /\ permits' = permits
              /\ active_workers' = active_workers]_vars

C39_Witness ==
    /\ cfg.max_workers = 0
    /\ \E r \in Orchestrated :
          /\ req[r].pc = "done"
          /\ req[r].tasks = MaxTasks
          /\ req[r].directive
          /\ req[r].out = "master_reply"
          /\ Len(req[r].log) = 1

\* ------------------------------------------------------- stream end claim
\* C40: when a session's inbound frame stream ends (the peer is gone and the
\* stream yields no further frames, without a receive error), the session
\* handler terminates and removes its connection; it does not stay
\* registered in the connection table waiting for a shutdown signal or a
\* failed broadcast send.
StreamEnds(c) == ws_pc[c] = "loop" /\ ws_pc'[c] = "stream_ended"

C40_StreamEndEndsSession ==
    /\ [][\A c \in Conns : StreamEnds(c) => c \notin DOMAIN connections']_vars
    /\ [](\A c \in Conns : ws_pc[c] = "stream_ended" => c \notin DOMAIN connections)

====
